---------------------------- MODULE Spec2Model ----------------------------
(***************************************************************************)
(* ScrapeMaster (lizardcat/scrape_master): the fetch-extract-clean-store   *)
(* pipeline of app.py, the media cache with oldest-first eviction, the     *)
(* cleaning pipeline of data_cleaning.py and the store of database.py.     *)
(*                                                                         *)
(* Strings are TLA+ strings; a character is a string of length one.        *)
(* Five specifications share the variables:                                *)
(*   Spec        one pipeline run after the other (scrape_website), each   *)
(*               media acquisition of a run taken as one step;             *)
(*   SpecCache   worker threads running download_image / download_video /  *)
(*               scheduled_cleanup step by step, interleaved;              *)
(*   SpecAcquire download_image / download_video called one after the      *)
(*               other;                                                    *)
(*   SpecClean   DataCleaningPipeline.clean, step by step, on one input;   *)
(*   SpecJobs    request threads running create_job, toggle_job and        *)
(*               schedule_job_scraping step by step, interleaved;          *)
(*   SpecFire    the triggers fire run_scheduled_job while request         *)
(*               threads toggle and delete the jobs;                       *)
(*   SpecDash    runs append to a stored scraping_stats table and the      *)
(*               dashboard reads it.                                       *)
(***************************************************************************)
EXTENDS Integers, Sequences, FiniteSets, TLC

VARIABLES
    \* ---- one call of scrape_website (app.py 270-421)
    pc,             \* position of the call
    request,        \* the arguments of the calls: a behaviour repeats one request
    success,        \* local `success`
    error_message,  \* local `error_message`
    soup,           \* local `soup`: the parsed page, or NoSoup
    elements,       \* the elements of the extraction loop still to visit
    locals,         \* the locals bound so far: extracted_data, cleaned_data
    exit,           \* how the try block left: the value returned, or a raise
    direct_calls,   \* requests.get calls made by the call (fetch tier 1)
    selenium_calls, \* selenium_scrape calls made by the call (fetch tier 2)
    direct_result,  \* what the direct attempt of the call did
    stats_appended, \* RunStats rows the call has inserted
    stats_saved,    \* what save_scraping_stats returned to the call, or "unset"
    calls,          \* calls of scrape_website started so far
    \* ---- the store (database.py) and the CSV artifact
    scraping_stats, \* table scraping_stats, in insertion order
    results,        \* table results, in insertion order
    csv,            \* data/scraped_data.csv: whether it exists, and its rows
    \* ---- the media directories static/images and static/videos
    media,          \* kind -> directory
    \* ---- worker threads of the media cache (SpecCache)
    wpc,            \* worker -> position
    wcall,          \* worker -> the locals of the operation it runs
    cached,         \* file name -> the reference a finished acquisition returned
                    \* for it, NULL once the file was removed
    started,        \* operations the workers have started so far
    \* ---- acquisitions run one after the other (SpecAcquire)
    acquisition,    \* the last acquisition: its kind, URL and returned value
    \* ---- DataCleaningPipeline.clean (SpecClean)
    pipeline,       \* the call: self.steps, the steps applied, data_list, cleaned_data
    \* ---- the jobs and the scheduler (SpecJobs)
    scraping_jobs,  \* table scraping_jobs: the rows by id, and the last id given
    triggers,       \* the job store of the scheduler: the live triggers, in order
    sched,          \* whether the first request has come, and thread -> the call it runs
    \* ---- the dashboard (SpecDash)
    dashboard       \* what db.get_dashboard_stats() returned last

runVars == <<pc, request, success, error_message, soup, elements, locals, exit,
             direct_calls, selenium_calls, direct_result, stats_appended, stats_saved,
             calls>>
storeVars == <<scraping_stats, results, csv>>
workerVars == <<wpc, wcall, cached, started>>
jobVars == <<scraping_jobs, triggers, sched>>
sideVars == <<acquisition, pipeline, jobVars, dashboard>>
vars == <<runVars, storeVars, media, workerVars, sideVars>>

-----------------------------------------------------------------------------
(* Strings                                                                 *)

NULL == "<NULL>"        \* Python None / SQL NULL in a string-valued place

Ch(s, i) == SubSeq(s, i, i)

StartsWith(s, p) == Len(s) >= Len(p) /\ SubSeq(s, 1, Len(p)) = p

EndsWith(s, p) == Len(s) >= Len(p) /\ SubSeq(s, Len(s) - Len(p) + 1, Len(s)) = p

\* str.find: the least index >= 1 where sub starts in s, or 0
Occurrences(s, sub) == {i \in 1..(Len(s) - Len(sub) + 1) : SubSeq(s, i, i + Len(sub) - 1) = sub}
Least(hits) == IF hits = {} THEN 0 ELSE CHOOSE i \in hits : \A j \in hits : i <= j
Greatest(hits) == IF hits = {} THEN 0 ELSE CHOOSE i \in hits : \A j \in hits : i >= j
Find(s, sub) == Least(Occurrences(s, sub))

\* str.rfind
RFind(s, sub) == Greatest(Occurrences(s, sub))

Contains(s, sub) == Find(s, sub) > 0

UpperChars == <<"A","B","C","D","E","F","G","H","I","J","K","L","M",
                "N","O","P","Q","R","S","T","U","V","W","X","Y","Z">>
LowerChars == <<"a","b","c","d","e","f","g","h","i","j","k","l","m",
                "n","o","p","q","r","s","t","u","v","w","x","y","z">>
DigitChars == {"0","1","2","3","4","5","6","7","8","9"}
Letters == {UpperChars[i] : i \in 1..26} \cup {LowerChars[i] : i \in 1..26}

LowerAt(c, hits) == IF hits = {} THEN c ELSE LowerChars[CHOOSE i \in hits : TRUE]
LowerOf(c) == LowerAt(c, {i \in 1..26 : UpperChars[i] = c})

\* str.lower
RECURSIVE Lower(_)
Lower(s) == IF s = "" THEN "" ELSE LowerOf(Ch(s, 1)) \o Lower(SubSeq(s, 2, Len(s)))

Whitespace == {" ", "\n", "\t", "\r"}

\* str.strip
RECURSIVE LStrip(_)
LStrip(s) == IF s # "" /\ Ch(s, 1) \in Whitespace THEN LStrip(SubSeq(s, 2, Len(s))) ELSE s
RECURSIVE RStrip(_)
RStrip(s) == IF s # "" /\ Ch(s, Len(s)) \in Whitespace THEN RStrip(SubSeq(s, 1, Len(s) - 1)) ELSE s
Strip(s) == LStrip(RStrip(s))

\* str.split(sep, 1): the part before the first sep and the part after it
BeforeAt(s, i) == IF i = 0 THEN s ELSE SubSeq(s, 1, i - 1)
AfterAt(s, i, n) == IF i = 0 THEN "" ELSE SubSeq(s, i + n, Len(s))
Before(s, sep) == BeforeAt(s, Find(s, sep))
After(s, sep) == AfterAt(s, Find(s, sep), Len(sep))

-----------------------------------------------------------------------------
(* urllib.parse, as far as the program uses it.  The model's URLs hold no  *)
(* ";" (path parameters), no "[" "]" and no leading blank.                 *)

SchemeChars == Letters \cup DigitChars \cup {"+", "-", "."}

\* urlsplit's scheme test: a ":" preceded by a letter and scheme characters
SchemeAt(u, i) ==
    /\ i > 1
    /\ Ch(u, 1) \in Letters
    /\ \A k \in 1..(i - 1) : Ch(u, k) \in SchemeChars
HasScheme(u) == SchemeAt(u, Find(u, ":"))

\* the end of the authority: the first of "/", "?", "#" at or after position 3
NetlocStops(r) == {i \in 3..Len(r) : Ch(r, i) \in {"/", "?", "#"}}
LeastOr(stops, default) == IF stops = {} THEN default ELSE CHOOSE i \in stops : \A j \in stops : i <= j
NetlocEnd(r) == LeastOr(NetlocStops(r), Len(r) + 1)

\* urlsplit, from the authority on: r2 is what follows the authority
SplitPath(scheme, netloc, r2, r3) ==
    [scheme   |-> scheme,
     netloc   |-> netloc,
     path     |-> Before(r3, "?"),
     query    |-> After(r3, "?"),
     fragment |-> After(r2, "#")]
SplitNetlocAt(scheme, r1, end) ==
    IF StartsWith(r1, "//")
    THEN SplitPath(scheme, SubSeq(r1, 3, end - 1), SubSeq(r1, end, Len(r1)),
                   Before(SubSeq(r1, end, Len(r1)), "#"))
    ELSE SplitPath(scheme, "", r1, Before(r1, "#"))
SplitScheme(u, hasScheme) ==
    IF hasScheme
    THEN SplitNetlocAt(Lower(Before(u, ":")), After(u, ":"), NetlocEnd(After(u, ":")))
    ELSE SplitNetlocAt("", u, NetlocEnd(u))

\* urllib.parse.urlparse: [scheme, netloc, path, query, fragment]
urlparse(u) == SplitScheme(u, HasScheme(u))

\* urlunparse of the five parts
urlunparse(p) ==
    (IF p.scheme # "" THEN p.scheme \o ":" ELSE "")
    \o (IF p.netloc # "" \/ (p.scheme \in {"http", "https", "ftp", "file"} /\ ~StartsWith(p.path, "//"))
        THEN "//" \o p.netloc ELSE "")
    \o p.path
    \o (IF p.query # "" THEN "?" \o p.query ELSE "")
    \o (IF p.fragment # "" THEN "#" \o p.fragment ELSE "")

\* the directory of a base path: everything up to and including the last "/"
DirOf(path) == SubSeq(path, 1, RFind(path, "/"))

\* the parts of urljoin(base, url), b and r being the two URLs parsed
JoinParts(b, r) ==
    IF r.netloc # "" THEN [r EXCEPT !.scheme = b.scheme]
    ELSE IF r.path = ""
         THEN [b EXCEPT !.query = IF r.query # "" THEN r.query ELSE b.query,
                        !.fragment = r.fragment]
    ELSE IF StartsWith(r.path, "/")
         THEN [r EXCEPT !.scheme = b.scheme, !.netloc = b.netloc]
    ELSE [r EXCEPT !.scheme = b.scheme, !.netloc = b.netloc,
                   !.path = (IF b.path = "" THEN "/" ELSE DirOf(b.path)) \o r.path]

UrlJoinParsed(base, url, b, r) ==
    IF base = "" THEN url
    ELSE IF url = "" THEN base
    ELSE IF r.scheme # "" /\ r.scheme # b.scheme THEN url
    ELSE IF r.scheme \notin {"", "http", "https", "ftp", "file"} THEN url
    ELSE urlunparse(JoinParts(b, r))

\* urljoin(base, url) for an url that is absolute, network-path ("//host/.."),
\* absolute-path ("/..") or a relative path without "." and ".." segments
urljoin(base, url) == UrlJoinParsed(base, url, urlparse(base), urlparse(url))

\* the test of validate_url on the parsed URL
ValidParsed(result) == result.scheme \in {"http", "https"} /\ result.netloc # ""

\* validate_url (app.py 101-112)
validate_url(url) == ValidParsed(urlparse(url))

\* normalize_url (app.py 115-128): NULL stands for None
normalize_url(url, base_url) ==
    IF url = NULL \/ url = "" THEN NULL
    ELSE IF StartsWith(url, "data:") \/ StartsWith(url, "javascript:") \/ StartsWith(url, "mailto:")
         THEN NULL
    ELSE urljoin(base_url, url)

\* os.path.splitext(path)[1]: from the last "." of the last component, when
\* that "." is not the component's first character
ExtAt(name, dot) == IF dot > 1 THEN SubSeq(name, dot, Len(name)) ELSE ""
ExtOf(name) == ExtAt(name, RFind(name, "."))
splitext(path) == ExtOf(SubSeq(path, RFind(path, "/") + 1, Len(path)))

-----------------------------------------------------------------------------
(* data_cleaning.py                                                        *)

\* dict.get(key, default) on an options record
Get(options, key, default) == IF key \in DOMAIN options THEN options[key] ELSE default

\* html.unescape, for the entities of the model's texts
RECURSIVE unescape(_)
unescape(s) ==
    IF s = "" THEN ""
    ELSE IF StartsWith(s, "&amp;") THEN "&" \o unescape(SubSeq(s, 6, Len(s)))
    ELSE IF StartsWith(s, "&lt;") THEN "<" \o unescape(SubSeq(s, 5, Len(s)))
    ELSE IF StartsWith(s, "&gt;") THEN ">" \o unescape(SubSeq(s, 5, Len(s)))
    ELSE Ch(s, 1) \o unescape(SubSeq(s, 2, Len(s)))

\* ' '.join(s.split()) on a string with no leading blank
RECURSIVE JoinSplitRec(_)
JoinSplitRec(t) ==
    IF t = "" THEN ""
    ELSE IF Ch(t, 1) \in Whitespace THEN " " \o JoinSplitRec(LStrip(t))
    ELSE Ch(t, 1) \o JoinSplitRec(SubSeq(t, 2, Len(t)))

\* ' '.join(s.split())
JoinSplit(s) == JoinSplitRec(Strip(s))

\* str.replace(old, new) for a one-character old
RECURSIVE ReplaceChar(_, _, _)
ReplaceChar(s, old, new) ==
    IF s = "" THEN ""
    ELSE (IF Ch(s, 1) = old THEN new ELSE Ch(s, 1)) \o ReplaceChar(SubSeq(s, 2, Len(s)), old, new)

\* re.sub(r'[^\w\s]', '', s) and re.sub(r'\d+', '', s)
RECURSIVE KeepChars(_, _)
KeepChars(s, keep) ==
    IF s = "" THEN ""
    ELSE (IF Ch(s, 1) \in keep THEN Ch(s, 1) ELSE "") \o KeepChars(SubSeq(s, 2, Len(s)), keep)
RECURSIVE DropChars(_, _)
DropChars(s, drop) ==
    IF s = "" THEN ""
    ELSE (IF Ch(s, 1) \in drop THEN "" ELSE Ch(s, 1)) \o DropChars(SubSeq(s, 2, Len(s)), drop)

\* entities left as they are
DecodeHtmlOff(s, on) == s

\* the steps of clean_text, each applied when its option is set
DecodeHtml(s, on) == IF on THEN unescape(s) ELSE s
RemoveNewlines(s, on) == IF on THEN ReplaceChar(ReplaceChar(s, "\n", " "), "\r", " ") ELSE s
StripWhitespace(s, on) == IF on THEN Strip(JoinSplit(s)) ELSE s
Lowercase(s, on) == IF on THEN Lower(s) ELSE s
RemovePunctuation(s, on) ==
    IF on THEN KeepChars(s, Letters \cup DigitChars \cup {"_"} \cup Whitespace) ELSE s
RemoveNumbers(s, on) == IF on THEN DropChars(s, DigitChars) ELSE s

\* DataCleaner.clean_text (data_cleaning.py 17-78); remove_urls, which the
\* default pipeline leaves off, is taken as off
clean_text(text, options) ==
    IF text = "" THEN ""
    ELSE RemoveNumbers(
           RemovePunctuation(
             Lowercase(
               StripWhitespace(
                 RemoveNewlines(
                   DecodeHtml(text, Get(options, "decode_html", TRUE)),
                   Get(options, "remove_newlines", FALSE)),
                 Get(options, "strip_whitespace", TRUE)),
               Get(options, "lowercase", FALSE)),
             Get(options, "remove_punctuation", FALSE)),
           Get(options, "remove_numbers", FALSE))

\* str.rstrip('/')
RECURSIVE RStripSlash(_)
RStripSlash(s) == IF s # "" /\ Ch(s, Len(s)) = "/" THEN RStripSlash(SubSeq(s, 1, Len(s) - 1)) ELSE s

\* lines 106-125 of clean_url: the URL rebuilt from its parts
RebuildUrl(url, options, scheme, netloc, path, parsed) ==
    IF Get(options, "remove_params", FALSE) /\ Get(options, "remove_fragment", TRUE)
    THEN scheme \o "://" \o netloc \o path
    ELSE IF Get(options, "remove_params", FALSE)
    THEN scheme \o "://" \o netloc \o path \o "#" \o parsed.fragment
    ELSE IF Get(options, "remove_fragment", TRUE)
    THEN scheme \o "://" \o netloc \o path
         \o (IF parsed.query # "" THEN "?" \o parsed.query ELSE "")
    ELSE url

CleanParsed(url, options, parsed) ==
    RebuildUrl(url, options, parsed.scheme,
               IF Get(options, "lowercase", TRUE) THEN Lower(parsed.netloc) ELSE parsed.netloc,
               IF Get(options, "remove_trailing_slash", TRUE) /\ EndsWith(parsed.path, "/")
                  /\ Len(parsed.path) > 1
               THEN RStripSlash(parsed.path) ELSE parsed.path,
               parsed)

\* DataCleaner.clean_url (data_cleaning.py 80-129)
clean_url(url, options) == IF url = "" THEN "" ELSE CleanParsed(url, options, urlparse(url))

\* bool(parsed.scheme and parsed.netloc)
SchemeAndNetloc(parsed) == parsed.scheme # "" /\ parsed.netloc # ""

\* a validation that takes a leading "/" for every kind of reference
ValidateAlike(data, data_type, parsed) ==
    IF data = "" THEN FALSE
    ELSE IF data_type = "Text" THEN Len(Strip(data)) >= 3
    ELSE StartsWith(data, "/") \/ SchemeAndNetloc(parsed)

\* a validation that measures the text untrimmed
ValidateUntrimmed(data, data_type, parsed) ==
    IF data = "" THEN FALSE
    ELSE IF data_type = "Text" THEN Len(data) >= 3
    ELSE IF data_type = "Links" THEN SchemeAndNetloc(parsed)
    ELSE StartsWith(data, "/") \/ SchemeAndNetloc(parsed)

\* DataCleaner.validate_data (data_cleaning.py 131-169)
ValidateParsed(data, data_type, parsed) ==
    IF data = "" THEN FALSE
    ELSE IF data_type = "Text" THEN Len(Strip(data)) >= 3
    ELSE IF data_type = "Links" THEN SchemeAndNetloc(parsed)
    ELSE IF data_type \in {"Images", "Videos"}
         THEN StartsWith(data, "/") \/ SchemeAndNetloc(parsed)
    ELSE TRUE
validate_data(data, data_type) == ValidateParsed(data, data_type, urlparse(data))

\* a key that keeps the case in both modes
DedupKeyCased(item, case_sensitive) == item

\* the key remove_duplicates compares: item.lower() or the item
DedupKey(item, case_sensitive) == IF case_sensitive THEN item ELSE Lower(item)

\* a step that hands the items back last first
DedupLastFirst(data_list, case_sensitive) ==
    [i \in 1..Len(data_list) |-> data_list[Len(data_list) - i + 1]]

\* the loop of remove_duplicates: `seen` holds the keys met so far
RECURSIVE DedupLoop(_, _, _)
DedupLoop(data_list, seen, case_sensitive) ==
    IF data_list = <<>> THEN <<>>
    ELSE IF DedupKey(Head(data_list), case_sensitive) \in seen
         THEN DedupLoop(Tail(data_list), seen, case_sensitive)
    ELSE <<Head(data_list)>>
         \o DedupLoop(Tail(data_list), seen \cup {DedupKey(Head(data_list), case_sensitive)},
                      case_sensitive)

\* DataCleaner.remove_duplicates (data_cleaning.py 171-196)
remove_duplicates(data_list, case_sensitive) == DedupLoop(data_list, {}, case_sensitive)

\* DataCleaner.filter_by_length (data_cleaning.py 198-210); 0 stands for an
\* absent bound, which the code's truth test treats like None
filter_by_length(data_list, min_length, max_length) ==
    LET Keep(item) == /\ ~(min_length # 0 /\ Len(item) < min_length)
                      /\ ~(max_length # 0 /\ Len(item) > max_length)
    IN  SelectSeq(data_list, Keep)

\* one step of DataCleaningPipeline.clean (data_cleaning.py 259-302);
\* filter_by_pattern, which no default pipeline uses, leaves the list as it is
ApplyStep(step, cleaned_data, data_type) ==
    LET options == step.options
    IN  IF step.type = "clean_text" /\ data_type = "Text"
        THEN [i \in 1..Len(cleaned_data) |-> clean_text(cleaned_data[i], options)]
        ELSE IF step.type = "clean_url" /\ data_type \in {"Links", "Images", "Videos"}
        THEN [i \in 1..Len(cleaned_data) |-> clean_url(cleaned_data[i], options)]
        ELSE IF step.type = "validate"
        THEN LET Keep(item) == validate_data(item, data_type)
             IN  SelectSeq(cleaned_data, Keep)
        ELSE IF step.type = "remove_duplicates"
        THEN remove_duplicates(cleaned_data, Get(options, "case_sensitive", TRUE))
        ELSE IF step.type = "filter_by_length"
        THEN filter_by_length(cleaned_data, Get(options, "min_length", 0),
                              Get(options, "max_length", 0))
        ELSE cleaned_data

\* DataCleaningPipeline.clean (data_cleaning.py 249-305)
RECURSIVE PipelineClean(_, _, _)
PipelineClean(steps, data_list, data_type) ==
    IF steps = <<>> THEN data_list
    ELSE PipelineClean(Tail(steps), ApplyStep(Head(steps), data_list, data_type), data_type)

NoOptions == [none |-> TRUE]

\* create_default_pipeline (data_cleaning.py 308-331): the step list
create_default_pipeline(data_type) ==
    IF data_type = "Text"
    THEN << [type |-> "clean_text",
             options |-> [strip_whitespace |-> TRUE, decode_html |-> TRUE, remove_newlines |-> FALSE]],
            [type |-> "filter_by_length", options |-> [min_length |-> 3]],
            [type |-> "validate", options |-> NoOptions],
            [type |-> "remove_duplicates", options |-> [case_sensitive |-> FALSE]] >>
    ELSE IF data_type \in {"Links", "Images", "Videos"}
    THEN << [type |-> "clean_url",
             options |-> [remove_fragment |-> TRUE, lowercase |-> TRUE, remove_trailing_slash |-> TRUE]],
            [type |-> "validate", options |-> NoOptions],
            [type |-> "remove_duplicates", options |-> [case_sensitive |-> FALSE]] >>
    ELSE <<>>

-----------------------------------------------------------------------------
(* The media directories and the remote media (app.py 52-98, 131-237).     *)
(* A directory is [size, ctime, birth]: size maps each regular file to its *)
(* bytes; ctime lists the files by os.path.getctime, least first (on POSIX *)
(* the time of the last change of the inode: creation, truncation or       *)
(* write); birth lists them by the time they were created.                 *)

MAX_STORAGE_SIZE == 500 * 1024 * 1024

\* bytes written between two points where another thread may run: a run of
\* 25600 chunks of chunk_size = 8192 bytes
Block == 25600 * 8192

Kinds == {"images", "videos"}

\* the media URLs the workers of SpecCache acquire
ImageUrls == {"http://site.test/a.png", "http://site.test/big.png"}
VideoUrls == {"http://site.test/dir/clip.mp4"}
MediaUrls(kind) == IF kind = "images" THEN ImageUrls ELSE VideoUrls

\* the URLs acquired one after the other in SpecAcquire: two URLs that serve
\* the same bytes, a document whose type names the word image outside the
\* image family, and a page
SameBytes == {"http://site.test/logo.png", "http://cdn.test/logo.png"}
RemoteUrls(kind) ==
    IF kind = "images"
    THEN SameBytes \cup {"http://site.test/a.png", "http://site.test/doc.odi", "http://site.test/page"}
    ELSE {"http://site.test/dir/clip.mp4", "http://site.test/page"}

\* the remote file behind a media URL: its length in bytes
ContentSize(url) ==
    IF url = "http://site.test/big.png" THEN 3 * Block
    ELSE IF url \in SameBytes \cup {"http://site.test/doc.odi", "http://site.test/page"} THEN Block
    ELSE 2 * Block

\* the bytes behind a media URL, named
ContentOf(url) == IF url \in SameBytes THEN "logo" ELSE url

\* response.headers.get('content-type', '')
ContentType(url) ==
    IF url = "http://site.test/doc.odi" THEN "application/vnd.oasis.opendocument.image"
    ELSE IF url = "http://site.test/page" THEN "text/html; charset=utf-8"
    ELSE IF EndsWith(url, ".mp4") THEN "video/mp4"
    ELSE "image/png"

\* the word looked for in the content type (app.py 162, 219)
MediaFamily(kind) == IF kind = "images" THEN "image" ELSE "video"

EmptyDir == [size |-> <<>>, ctime |-> <<>>, birth |-> <<>>]

Without(seq, name) == SelectSeq(seq, LAMBDA n : n # name)

\* os.path.exists(filepath)
Exists(dir, name) == name \in DOMAIN dir.size

RECURSIVE SumSizes(_, _)
SumSizes(size, names) ==
    IF names = {} THEN 0
    ELSE LET n == CHOOSE x \in names : TRUE
         IN  size[n] + SumSizes(size, names \ {n})

\* get_folder_size (app.py 55-69)
get_folder_size(dir) == SumSizes(dir.size, DOMAIN dir.size)

\* open(filepath, 'wb'): creates the file, or truncates the one that is there
OpenWb(dir, name) ==
    [size  |-> [n \in DOMAIN dir.size \cup {name} |-> IF n = name THEN 0 ELSE dir.size[n]],
     ctime |-> Append(Without(dir.ctime, name), name),
     birth |-> IF Exists(dir, name) THEN dir.birth ELSE Append(dir.birth, name)]

\* f.write of `bytes` bytes at `offset` through a handle on the file `name`
WriteBytes(dir, name, offset, bytes) ==
    [dir EXCEPT !.size[name] = IF @ > offset + bytes THEN @ ELSE offset + bytes,
                !.ctime = Append(Without(dir.ctime, name), name)]

\* os.remove(name) of a file that is there
Remove(dir, name) ==
    [size  |-> [n \in DOMAIN dir.size \ {name} |-> dir.size[n]],
     ctime |-> Without(dir.ctime, name),
     birth |-> Without(dir.birth, name)]

\* files.sort(key=os.path.getctime); files[0]   (app.py 88-89)
OldestFile(dir) == Head(dir.ctime)

\* clean_storage (app.py 72-98) run with no other thread in between: the
\* directories it can leave.  os.remove may raise, which ends the pass.
RECURSIVE clean_storage(_)
clean_storage(dir) ==
    IF ~(get_folder_size(dir) > MAX_STORAGE_SIZE) THEN {dir}
    ELSE IF dir.ctime = <<>> THEN {dir}
    ELSE {dir} \cup clean_storage(Remove(dir, OldestFile(dir)))

\* hashlib.md5(url.encode()).hexdigest(): a name that differs for the URLs
\* of the model whenever the URLs differ
md5hex(url) == KeepChars(Lower(url), {LowerChars[i] : i \in 1..26} \cup DigitChars)

DefaultExt(kind) == IF kind = "images" THEN ".jpg" ELSE ".mp4"

\* filename = f"{url_hash}{ext}"   (app.py 146-148, 203-205)
WithExt(stem, ext, default) == stem \o (IF ext # "" THEN ext ELSE default)
Filename(kind, url) == WithExt(md5hex(url), splitext(urlparse(url).path), DefaultExt(kind))

\* f"/static/images/{filename}"   (app.py 154, 176, 211, 233)
RefOf(kind, name) == "/static/" \o kind \o "/" \o name

EmbedDomains == {"youtube.com", "youtu.be", "vimeo.com"}

\* the directory after k blocks of the body were written to a fresh file
RECURSIVE WriteBlocks(_, _, _)
WriteBlocks(dir, name, k) ==
    IF k = 0 THEN dir
    ELSE WriteBytes(WriteBlocks(dir, name, k - 1), name, (k - 1) * Block, Block)

\* lines 156-176 of download_image: the file is not there yet
Fetch(kind, name, n, dir, fresh) ==
    \* requests.get or raise_for_status raised, or the content type is wrong,
    \* or the file could not be opened
    {[ret |-> NULL, dir |-> dir]}
    \* the body stream broke after k blocks: the file stays as written
    \cup {[ret |-> NULL, dir |-> WriteBlocks(fresh, name, k)] : k \in 0..(n - 1)}
    \* the file was written whole, then clean_storage ran
    \cup {[ret |-> RefOf(kind, name), dir |-> d] : d \in clean_storage(WriteBlocks(fresh, name, n))}

\* lines 144-164: the file name, the existence test, the content type test
Acquire(kind, url, name, dir) ==
    IF Exists(dir, name) THEN {[ret |-> RefOf(kind, name), dir |-> dir]}
    ELSE IF ~Contains(ContentType(url), MediaFamily(kind)) THEN {[ret |-> NULL, dir |-> dir]}
    ELSE Fetch(kind, name, ContentSize(url) \div Block, dir, OpenWb(dir, name))

\* lines 140-142 and 196-199: the URL test, the embedded players
DownloadUrl(kind, url, dir) ==
    IF url = NULL \/ ~validate_url(url) THEN {[ret |-> NULL, dir |-> dir]}
    ELSE IF kind = "videos" /\ \E d \in EmbedDomains : Contains(url, d)
    THEN {[ret |-> url, dir |-> dir]}
    ELSE Acquire(kind, url, Filename(kind, url), dir)

\* download_image / download_video (app.py 131-180, 183-237) run with no
\* other thread in between: the (value returned, directory left) pairs
Download(kind, src, base_url, dir) ==
    DownloadUrl(kind, IF src = NULL \/ src = "" THEN NULL ELSE normalize_url(src, base_url), dir)

-----------------------------------------------------------------------------
(* The pages a fetch can return, and the requests                          *)

MaxCalls == 2           \* calls of scrape_website in one behaviour

NoJob == 0              \* job_id=None; the ids of scraping_jobs start at 1

NoSoup == "None"

\* what soup.find_all gives for each selector: the text of the <p> elements,
\* the href of the <a href> elements, the src of the <img src> elements, and
\* the <video> and <iframe> elements with their src (NULL when absent)
Pages ==
    [empty |-> [p |-> <<>>, a |-> <<>>, img |-> <<>>, media |-> <<>>],
     rich  |-> [p     |-> <<"Hello  world", "ab", "hello world", "  ">>,
                a     |-> <<"/A/", "http://SITE.test/a#top", "mailto:x@site.test">>,
                img   |-> <<"pic.png", "/a.png", "data:image/png">>,
                media |-> << [name |-> "video", src |-> "clip.mp4"],
                             [name |-> "iframe", src |-> "https://youtube.com/embed/x"],
                             [name |-> "iframe", src |-> NULL] >>]]

PageNames == DOMAIN Pages

DataTypes == {"Text", "Links", "Images", "Videos"}

\* the arguments of the calls; a download flag that the data type does not
\* read is left False, and the keyword filter is tried on Text
Requests ==
    {r \in [url : {"http://site.test/dir/page", "not a url"},
            data_type : DataTypes \cup {"Audio"},
            keyword : {"", "ab"},
            download_images : BOOLEAN,
            download_videos : BOOLEAN,
            job_id : {NoJob, 1},
            apply_cleaning : {TRUE}] :
        /\ r.keyword # "" => r.data_type = "Text"
        /\ r.download_images => r.data_type = "Images"
        /\ r.download_videos => r.data_type = "Videos"
        /\ ~validate_url(r.url) => r.data_type = "Text" /\ r.keyword = ""}

SeleniumErrors == {"Message: unknown error: net::ERR_NAME_NOT_RESOLVED"}

NoExit == [kind |-> "none", value |-> <<>>]
Returns(value) == [kind |-> "return", value |-> value]
Raises == [kind |-> "raise", value |-> <<>>]

ErrorItem(content) == [type |-> "error", content |-> content]

\* elements = soup.find_all(...)   (app.py 313-320)
FindAll(page, data_type) ==
    IF data_type = "Text" THEN [i \in 1..Len(Pages[page].p) |-> [name |-> "p", value |-> Pages[page].p[i]]]
    ELSE IF data_type = "Links" THEN [i \in 1..Len(Pages[page].a) |-> [name |-> "a", value |-> Pages[page].a[i]]]
    ELSE IF data_type = "Images" THEN [i \in 1..Len(Pages[page].img) |-> [name |-> "img", value |-> Pages[page].img[i]]]
    ELSE [i \in 1..Len(Pages[page].media) |->
            [name |-> Pages[page].media[i].name, value |-> Pages[page].media[i].src]]

\* an element whose acquisition failed yields no item, which C13 excludes
AcquiredOrNone(kind, dirs, outcomes, remote) ==
    {[data |-> o.ret, dirs |-> [dirs EXCEPT ![kind] = o.dir]] : o \in outcomes}

\* data = local_path if local_path else normalize_url(src, url)  (app.py 347, 356)
Acquired(kind, dirs, outcomes, remote) ==
    {[data |-> IF o.ret # NULL THEN o.ret ELSE remote, dirs |-> [dirs EXCEPT ![kind] = o.dir]] :
        o \in outcomes}

\* one pass of the extraction loop (app.py 330-361) on one element: the
\* (data, directories) pairs it can end with; data = NULL stands for None
\* and for the `continue` of an empty text or an unresolvable href
ExtractWith(element, req, dirs, remote) ==
    IF req.data_type = "Text"
    THEN {[data |-> IF Strip(element.value) = "" THEN NULL ELSE Strip(element.value), dirs |-> dirs]}
    ELSE IF req.data_type = "Images" /\ req.download_images
    THEN Acquired("images", dirs, Download("images", element.value, req.url, dirs["images"]), remote)
    ELSE IF req.data_type = "Videos" /\ element.name = "video" /\ req.download_videos
    THEN Acquired("videos", dirs, Download("videos", element.value, req.url, dirs["videos"]), remote)
    ELSE {[data |-> remote, dirs |-> dirs]}

ExtractOne(element, req, dirs) ==
    ExtractWith(element, req, dirs,
                IF element.value = NULL THEN NULL ELSE normalize_url(element.value, req.url))

\* the keyword filter (app.py 364-368)
PassesKeyword(data, keyword) ==
    /\ data # NULL /\ data # ""
    /\ keyword # "" => Contains(Lower(data), Lower(keyword))

\* the rows save_scraping_results inserts (database.py 277-283)
ResultRows(url, data_type, extracted_data, cleaned_data, job_id) ==
    [i \in 1..Len(extracted_data) |->
        [job_id |-> job_id, url |-> url, data_type |-> data_type,
         extracted_data |-> extracted_data[i],
         cleaned_data |-> IF cleaned_data # <<>> /\ i <= Len(cleaned_data)
                          THEN cleaned_data[i] ELSE NULL]]

\* the row save_scraping_stats inserts (database.py 306-312), built from the
\* arguments of the finally block (app.py 410-419)
StatsRow ==
    [job_id |-> request.job_id, url |-> request.url, data_type |-> request.data_type,
     items_scraped |-> IF "extracted_data" \in DOMAIN locals THEN Len(locals.extracted_data) ELSE 0,
     items_cleaned |-> IF "cleaned_data" \in DOMAIN locals THEN Len(locals.cleaned_data) ELSE 0,
     success |-> success, error_message |-> error_message]

-----------------------------------------------------------------------------
(* scrape_website (app.py 270-421), one action per step                    *)

NoRequest == [url |-> "", data_type |-> "", keyword |-> "", download_images |-> FALSE,
              download_videos |-> FALSE, job_id |-> NoJob, apply_cleaning |-> TRUE]

NoLocals == <<>>

NoFile == [exists |-> FALSE, rows |-> <<>>]

Init ==
    /\ pc = "idle" /\ request \in Requests
    /\ success = TRUE /\ error_message = NULL
    /\ soup = NoSoup /\ elements = <<>> /\ locals = NoLocals /\ exit = NoExit
    /\ direct_calls = 0 /\ selenium_calls = 0 /\ direct_result = "none"
    /\ stats_appended = 0 /\ stats_saved = "unset" /\ calls = 0
    /\ scraping_stats = <<>> /\ results = <<>> /\ csv = NoFile
    /\ media = [k \in Kinds |-> EmptyDir]
    /\ wpc = <<>> /\ wcall = <<>> /\ cached = <<>> /\ started = 0
    /\ acquisition = <<>> /\ pipeline = <<>> /\ dashboard = <<>>
    /\ scraping_jobs = <<>> /\ triggers = <<>> /\ sched = <<>>

\* lines 274-282: the call starts; an invalid URL returns at once
Call ==
    /\ UNCHANGED sideVars
    /\ pc = "idle" /\ calls < MaxCalls
    /\ calls' = calls + 1
    /\ success' = TRUE /\ error_message' = NULL
    /\ soup' = NoSoup /\ elements' = <<>> /\ locals' = NoLocals
    /\ direct_calls' = 0 /\ selenium_calls' = 0 /\ direct_result' = "none"
    /\ stats_appended' = 0 /\ stats_saved' = "unset"
    /\ IF ~validate_url(request.url)
       THEN /\ exit' = Returns(<<ErrorItem("Invalid URL: " \o request.url)>>)
            /\ pc' = "finally"
       ELSE /\ exit' = NoExit
            /\ pc' = "direct"
    /\ UNCHANGED <<request, storeVars, media, workerVars>>

\* lines 288-296: the direct attempt.  It gives a page, raises a
\* RequestException (a network error, a timeout, a status >= 400), or raises
\* something else, which no except clause of scrape_website catches
FetchDirect ==
    /\ UNCHANGED sideVars
    /\ pc = "direct"
    /\ direct_calls' = direct_calls + 1
    /\ \/ \E page \in PageNames :
            /\ soup' = page /\ direct_result' = "ok" /\ pc' = "select"
            /\ UNCHANGED exit
       \/ /\ direct_result' = "RequestException" /\ pc' = "selenium"
          /\ UNCHANGED <<soup, exit>>
       \/ /\ direct_result' = "OtherError" /\ pc' = "finally"
          /\ exit' = Raises
          /\ UNCHANGED soup
    /\ UNCHANGED <<request, success, error_message, elements, locals, selenium_calls,
                   stats_appended, stats_saved, calls, storeVars, media, workerVars>>

\* a fallback that is tried again after it failed, which C3 excludes
FetchRenderedAgain ==
    /\ UNCHANGED sideVars
    /\ pc = "selenium"
    /\ selenium_calls' = selenium_calls + 1
    /\ \/ \E page \in PageNames :
            /\ soup' = page /\ pc' = "select"
            /\ UNCHANGED <<success, error_message, exit>>
       \/ \E selenium_error \in SeleniumErrors :
            /\ success' = FALSE
            /\ error_message' = selenium_error
            /\ IF selenium_calls = 0
               THEN pc' = "selenium" /\ UNCHANGED exit
               ELSE /\ exit' = Returns(<<ErrorItem("Failed to scrape website: " \o selenium_error)>>)
                    /\ pc' = "finally"
            /\ UNCHANGED soup
    /\ UNCHANGED <<request, elements, locals, direct_calls, direct_result,
                   stats_appended, stats_saved, calls, storeVars, media, workerVars>>

\* lines 297-303: the rendering fallback, selenium_scrape (app.py 251-267)
FetchRendered ==
    /\ UNCHANGED sideVars
    /\ pc = "selenium"
    /\ selenium_calls' = selenium_calls + 1
    /\ \/ \E page \in PageNames :
            /\ soup' = page /\ pc' = "select"
            /\ UNCHANGED <<success, error_message, exit>>
       \/ \E selenium_error \in SeleniumErrors :
            /\ success' = FALSE
            /\ error_message' = selenium_error
            /\ exit' = Returns(<<ErrorItem("Failed to scrape website: " \o selenium_error)>>)
            /\ pc' = "finally"
            /\ UNCHANGED soup
    /\ UNCHANGED <<request, elements, locals, direct_calls, direct_result,
                   stats_appended, stats_saved, calls, storeVars, media, workerVars>>

\* lines 305-326: the parse test, extracted_data = [], the element selection
SelectElements ==
    /\ UNCHANGED sideVars
    /\ pc = "select"
    /\ IF soup = NoSoup
       THEN /\ success' = FALSE
            /\ error_message' = "Failed to parse website"
            /\ exit' = Returns(<<ErrorItem("Failed to parse website")>>)
            /\ pc' = "finally"
            /\ UNCHANGED <<elements, locals>>
       ELSE /\ locals' = [extracted_data |-> <<>>]
            /\ IF request.data_type \in DataTypes
               THEN /\ elements' = FindAll(soup, request.data_type)
                    /\ pc' = "extract"
                    /\ UNCHANGED <<success, error_message, exit>>
               ELSE /\ success' = FALSE
                    /\ error_message' = "Invalid Data Type"
                    /\ exit' = Returns(<<ErrorItem("Invalid Data Type")>>)
                    /\ pc' = "finally"
                    /\ UNCHANGED elements
    /\ UNCHANGED <<request, soup, direct_calls, selenium_calls, direct_result,
                   stats_appended, stats_saved, calls, storeVars, media, workerVars>>

\* lines 329-368: one pass of the extraction loop
Extract ==
    /\ UNCHANGED sideVars
    /\ pc = "extract" /\ elements # <<>>
    /\ \E o \in ExtractOne(Head(elements), request, media) :
          /\ media' = o.dirs
          /\ locals' = IF PassesKeyword(o.data, request.keyword)
                       THEN [locals EXCEPT !.extracted_data = Append(@, o.data)]
                       ELSE locals
    /\ elements' = Tail(elements)
    /\ UNCHANGED <<pc, request, success, error_message, soup, exit, direct_calls,
                   selenium_calls, direct_result, stats_appended, stats_saved, calls, storeVars, workerVars>>

\* cleaned_data of lines 373-377
CleanedData(req, extracted_data) ==
    IF req.apply_cleaning /\ extracted_data # <<>>
    THEN PipelineClean(create_default_pipeline(req.data_type), extracted_data, req.data_type)
    ELSE extracted_data

\* lines 372-381: the cleaning pipeline.  Its steps raise on no string, so
\* the except clause of line 379 is never entered
Clean ==
    /\ UNCHANGED sideVars
    /\ pc = "extract" /\ elements = <<>>
    /\ locals' = [extracted_data |-> locals.extracted_data,
                  cleaned_data |-> CleanedData(request, locals.extracted_data)]
    /\ pc' = "csv"
    /\ UNCHANGED <<request, success, error_message, soup, elements, exit, direct_calls,
                   selenium_calls, direct_result, stats_appended, stats_saved, calls, storeVars, media,
                   workerVars>>

\* lines 383-390: the CSV artifact is rewritten, or the write raises and is logged
SaveCsv ==
    /\ UNCHANGED sideVars
    /\ pc = "csv"
    /\ \/ csv' = [exists |-> TRUE, rows |-> locals.cleaned_data]
       \/ UNCHANGED csv
    /\ pc' = "save_results"
    /\ UNCHANGED <<request, success, error_message, soup, elements, locals, exit, direct_calls,
                   selenium_calls, direct_result, stats_appended, stats_saved, calls, scraping_stats, results,
                   media, workerVars>>

\* a Result write whose failure is not caught, which C4 excludes
SaveResultsUncaught ==
    /\ UNCHANGED sideVars
    /\ pc = "save_results"
    /\ \/ /\ results' = results \o ResultRows(request.url, request.data_type,
                                              locals.extracted_data, locals.cleaned_data,
                                              request.job_id)
          /\ exit' = Returns([i \in 1..Len(locals.cleaned_data) |->
                                [type |-> request.data_type, content |-> locals.cleaned_data[i]]])
       \/ /\ exit' = Raises
          /\ UNCHANGED results
    /\ pc' = "finally"
    /\ UNCHANGED <<request, success, error_message, soup, elements, locals, direct_calls,
                   selenium_calls, direct_result, stats_appended, stats_saved, calls, scraping_stats, csv,
                   media, workerVars>>

\* lines 392-404: the Result rows are inserted, or the write fails (the
\* insert raises and is rolled back, database.py 289-292, or the connection
\* cannot be opened and the except clause of line 401 logs it); then the
\* items are returned
SaveResults ==
    /\ UNCHANGED sideVars
    /\ pc = "save_results"
    /\ \/ results' = results \o ResultRows(request.url, request.data_type,
                                           locals.extracted_data, locals.cleaned_data,
                                           request.job_id)
       \/ UNCHANGED results
    /\ exit' = Returns([i \in 1..Len(locals.cleaned_data) |->
                          [type |-> request.data_type, content |-> locals.cleaned_data[i]]])
    /\ pc' = "finally"
    /\ UNCHANGED <<request, success, error_message, soup, elements, locals, direct_calls,
                   selenium_calls, direct_result, stats_appended, stats_saved, calls, scraping_stats, csv,
                   media, workerVars>>

\* an insert that leaves two rows, which C1 excludes
InsertTwice(table, row) ==
    {[returned |-> "True", table |-> Append(Append(table, row), row)],
     [returned |-> "False", table |-> table]}

\* save_scraping_stats (database.py 297-322): the row is inserted, or the
\* insert fails and nothing is
save_scraping_stats(table, row) ==
    {[returned |-> "True", table |-> Append(table, row)],
     [returned |-> "False", table |-> table]}

\* lines 406-421: the finally block
SaveStats ==
    /\ UNCHANGED sideVars
    /\ pc = "finally"
    /\ \E saved \in save_scraping_stats(scraping_stats, StatsRow) :
          /\ scraping_stats' = saved.table
          /\ stats_saved' = saved.returned
    /\ stats_appended' = stats_appended + (Len(scraping_stats') - Len(scraping_stats))
    /\ pc' = "done"
    /\ UNCHANGED <<request, success, error_message, soup, elements, locals, exit, direct_calls,
                   selenium_calls, direct_result, calls, results, csv, media, workerVars>>

\* the call is over: the caller has the value (or the exception) of `exit`
Return ==
    /\ UNCHANGED sideVars
    /\ pc = "done"
    /\ pc' = "idle"
    /\ success' = TRUE /\ error_message' = NULL
    /\ soup' = NoSoup /\ elements' = <<>> /\ locals' = NoLocals /\ exit' = NoExit
    /\ direct_calls' = 0 /\ selenium_calls' = 0 /\ direct_result' = "none"
    /\ stats_appended' = 0 /\ stats_saved' = "unset"
    /\ UNCHANGED <<request, calls, storeVars, media, workerVars>>

Next ==
    \/ Call
    \/ FetchDirect
    \/ FetchRendered
    \/ SelectElements
    \/ Extract
    \/ Clean
    \/ SaveCsv
    \/ SaveResults
    \/ SaveStats
    \/ Return

Spec == Init /\ [][Next]_vars

-----------------------------------------------------------------------------
(* The media cache under threads: download_image / download_video          *)
(* (app.py 131-237), clean_storage (72-98) and scheduled_cleanup (805-813) *)
(* run by the threads of the server and of the scheduler.  A step is one   *)
(* access to the directory, together with the local computation before it. *)

Workers == {"w1", "w2"}

MaxStarted == 3         \* operations started in one behaviour

\* the locals of an operation: the file of the acquisition, the blocks
\* written (offset), whether the open handle still is the file of that name
\* (linked), whether requests.get was called (fetched), the file an eviction
\* pass picked (oldest), the value to return (ret); and `prior`, the
\* reference an earlier acquisition returned for the file, kept while the
\* file stays in the directory
NoCall == [op |-> "none", kind |-> "", url |-> "", name |-> "", offset |-> 0,
           linked |-> FALSE, fetched |-> FALSE, oldest |-> "", ret |-> NULL, prior |-> NULL]

InitCache ==
    /\ pc = "idle" /\ request = NoRequest
    /\ success = TRUE /\ error_message = NULL
    /\ soup = NoSoup /\ elements = <<>> /\ locals = NoLocals /\ exit = NoExit
    /\ direct_calls = 0 /\ selenium_calls = 0 /\ direct_result = "none"
    /\ stats_appended = 0 /\ stats_saved = "unset" /\ calls = 0
    /\ scraping_stats = <<>> /\ results = <<>> /\ csv = NoFile
    /\ media = [k \in Kinds |-> EmptyDir]
    /\ wpc = [w \in Workers |-> "idle"]
    /\ wcall = [w \in Workers |-> NoCall]
    /\ cached = [n \in UNION {{Filename(kind, url) : url \in MediaUrls(kind)} : kind \in Kinds} |-> NULL]
    /\ started = 0
    /\ acquisition = <<>> /\ pipeline = <<>> /\ dashboard = <<>>
    /\ scraping_jobs = <<>> /\ triggers = <<>> /\ sched = <<>>

\* an existence test that always answers no, which C7 excludes
CheckedAbsent(w, kind, url, name) ==
    /\ wcall' = [wcall EXCEPT ![w] =
                    [NoCall EXCEPT !.op = "download", !.kind = kind, !.url = url,
                                   !.name = name, !.prior = cached[name]]]
    /\ wpc' = [wpc EXCEPT ![w] = "get"]

\* lines 151-154, 208-211: if os.path.exists(filepath): return the reference
Checked(w, kind, url, name) ==
    /\ wcall' = [wcall EXCEPT ![w] =
                    [NoCall EXCEPT !.op = "download", !.kind = kind, !.url = url,
                                   !.name = name, !.prior = cached[name],
                                   !.ret = IF Exists(media[kind], name)
                                           THEN RefOf(kind, name) ELSE NULL]]
    /\ wpc' = [wpc EXCEPT ![w] = IF Exists(media[kind], name) THEN "ret" ELSE "get"]

\* lines 133-154, 185-211: a worker starts an acquisition of a URL that
\* passes validate_url and names no embedded player, and tests for the file
ExistsCheck(w) ==
    /\ UNCHANGED sideVars
    /\ wpc[w] = "idle" /\ started < MaxStarted
    /\ started' = started + 1
    /\ \E kind \in Kinds : \E url \in MediaUrls(kind) :
          Checked(w, kind, url, Filename(kind, url))
    /\ UNCHANGED <<runVars, storeVars, media, cached>>

\* lines 156-167, 213-224: requests.get, raise_for_status and the content
\* type; then open(filepath, 'wb')
RequestsGet(w) ==
    /\ UNCHANGED sideVars
    /\ wpc[w] = "get"
    /\ \/ /\ wcall' = [wcall EXCEPT ![w].fetched = TRUE]
          /\ wpc' = [wpc EXCEPT ![w] = "ret"]
          /\ UNCHANGED media
       \/ /\ media' = [media EXCEPT ![wcall[w].kind] = OpenWb(@, wcall[w].name)]
          /\ wcall' = [wcall EXCEPT ![w].fetched = TRUE, ![w].linked = TRUE]
          /\ wpc' = [wpc EXCEPT ![w] = "write"]
    /\ UNCHANGED <<runVars, storeVars, cached, started>>

\* lines 168-169, 225-226: the next block of chunks is written, through a
\* handle that may no longer be the file of that name; or iter_content
\* raises and the except clause of line 178 returns None
WriteChunk(w) ==
    /\ UNCHANGED sideVars
    /\ wpc[w] = "write"
    /\ \/ /\ media' = IF wcall[w].linked
                      THEN [media EXCEPT ![wcall[w].kind] =
                               WriteBytes(@, wcall[w].name, wcall[w].offset * Block, Block)]
                      ELSE media
          /\ wcall' = [wcall EXCEPT ![w].offset = @ + 1]
          /\ wpc' = [wpc EXCEPT ![w] =
                        IF (wcall[w].offset + 1) * Block >= ContentSize(wcall[w].url)
                        THEN "size" ELSE "write"]
       \/ /\ wpc' = [wpc EXCEPT ![w] = "ret"]
          /\ UNCHANGED <<media, wcall>>
    /\ UNCHANGED <<runVars, storeVars, cached, started>>

\* lines 805-813: the hourly job starts clean_storage("static/images"); the
\* scheduler runs one instance of a job at a time
ScheduledCleanup(w) ==
    /\ UNCHANGED sideVars
    /\ wpc[w] = "idle" /\ started < MaxStarted
    /\ \A v \in Workers : wcall[v].op # "cleanup"
    /\ started' = started + 1
    /\ wcall' = [wcall EXCEPT ![w] = [NoCall EXCEPT !.op = "cleanup", !.kind = "images"]]
    /\ wpc' = [wpc EXCEPT ![w] = "size"]
    /\ UNCHANGED <<runVars, storeVars, media, cached>>

\* clean_storage returns: download_image / download_video go on to return
\* the reference (lines 176, 233); scheduled_cleanup goes on to
\* clean_storage("static/videos") (line 811) and then ends
AfterPass(call) ==
    IF call.op = "cleanup"
    THEN IF call.kind = "images" THEN [call EXCEPT !.kind = "videos"] ELSE call
    ELSE [call EXCEPT !.ret = RefOf(call.kind, call.name)]

PassEnds(w) ==
    /\ wcall' = [wcall EXCEPT ![w] = AfterPass(@)]
    /\ wpc' = [wpc EXCEPT ![w] =
                  IF wcall[w].op = "cleanup" /\ wcall[w].kind = "images" THEN "size" ELSE "ret"]

\* line 78: while get_folder_size(folder_path) > MAX_STORAGE_SIZE
FolderSize(w) ==
    /\ UNCHANGED sideVars
    /\ wpc[w] = "size"
    /\ IF get_folder_size(media[wcall[w].kind]) > MAX_STORAGE_SIZE
       THEN wpc' = [wpc EXCEPT ![w] = "list"] /\ UNCHANGED wcall
       ELSE PassEnds(w)
    /\ UNCHANGED <<runVars, storeVars, media, cached, started>>

\* lines 79-89: the regular files are listed and sorted by getctime
ListFiles(w) ==
    /\ UNCHANGED sideVars
    /\ wpc[w] = "list"
    /\ IF media[wcall[w].kind].ctime = <<>>
       THEN PassEnds(w)
       ELSE /\ wcall' = [wcall EXCEPT ![w].oldest = OldestFile(media[wcall[w].kind])]
            /\ wpc' = [wpc EXCEPT ![w] = "remove"]
    /\ UNCHANGED <<runVars, storeVars, media, cached, started>>

\* the locals of the workers after the file `name` left the directory: an
\* open handle on it is one on an unlinked file
Unlinked(kind, name) ==
    [v \in Workers |->
        IF wcall[v].op = "download" /\ wcall[v].kind = kind /\ wcall[v].name = name
        THEN [wcall[v] EXCEPT !.linked = FALSE, !.prior = NULL]
        ELSE wcall[v]]

\* a deletion that fails and lets the loop go on
RemoveOldestRetry(w) ==
    /\ UNCHANGED sideVars
    /\ wpc[w] = "remove"
    /\ \/ /\ wpc' = [wpc EXCEPT ![w] = "size"]
          /\ UNCHANGED <<media, cached, wcall>>
       \/ /\ Exists(media[wcall[w].kind], wcall[w].oldest)
          /\ media' = [media EXCEPT ![wcall[w].kind] = Remove(@, wcall[w].oldest)]
          /\ cached' = [cached EXCEPT ![wcall[w].oldest] = NULL]
          /\ wcall' = Unlinked(wcall[w].kind, wcall[w].oldest)
          /\ wpc' = [wpc EXCEPT ![w] = "size"]
    /\ UNCHANGED <<runVars, storeVars, started>>

\* lines 91-96: os.remove(oldest_file).  It raises when the file is gone or
\* cannot be removed, which ends the pass; else the loop tests the size again
RemoveOldest(w) ==
    /\ UNCHANGED sideVars
    /\ wpc[w] = "remove"
    /\ \/ /\ PassEnds(w)
          /\ UNCHANGED <<media, cached>>
       \/ /\ Exists(media[wcall[w].kind], wcall[w].oldest)
          /\ media' = [media EXCEPT ![wcall[w].kind] = Remove(@, wcall[w].oldest)]
          /\ cached' = [cached EXCEPT ![wcall[w].oldest] = NULL]
          /\ wcall' = Unlinked(wcall[w].kind, wcall[w].oldest)
          /\ wpc' = [wpc EXCEPT ![w] = "size"]
    /\ UNCHANGED <<runVars, storeVars, started>>

\* the operation returns wcall[w].ret to its caller
ReturnLocal(w) ==
    /\ UNCHANGED sideVars
    /\ wpc[w] = "ret"
    /\ cached' = IF /\ wcall[w].op = "download" /\ wcall[w].ret # NULL
                    /\ Exists(media[wcall[w].kind], wcall[w].name)
                 THEN [cached EXCEPT ![wcall[w].name] = wcall[w].ret]
                 ELSE cached
    /\ wcall' = [wcall EXCEPT ![w] = NoCall]
    /\ wpc' = [wpc EXCEPT ![w] = "idle"]
    /\ UNCHANGED <<runVars, storeVars, media, started>>

NextCache ==
    \E w \in Workers :
        \/ ExistsCheck(w)
        \/ RequestsGet(w)
        \/ WriteChunk(w)
        \/ ScheduledCleanup(w)
        \/ FolderSize(w)
        \/ ListFiles(w)
        \/ RemoveOldest(w)
        \/ ReturnLocal(w)

SpecCache == InitCache /\ [][NextCache]_vars

\* a thread that runs clean_storage is given the processor again and again
\* until the loop is left
SpecCacheFair ==
    SpecCache /\ \A w \in Workers : WF_vars(FolderSize(w) \/ ListFiles(w) \/ RemoveOldest(w))

-----------------------------------------------------------------------------
(* Acquisitions run one after the other: download_image(url) and           *)
(* download_video(url), each taken whole                                   *)

MaxAcquired == 3        \* acquisitions in one behaviour

\* no call of scrape_website runs and the store is empty
NoRun ==
    /\ pc = "idle" /\ request = NoRequest
    /\ success = TRUE /\ error_message = NULL
    /\ soup = NoSoup /\ elements = <<>> /\ locals = NoLocals /\ exit = NoExit
    /\ direct_calls = 0 /\ selenium_calls = 0 /\ direct_result = "none"
    /\ stats_appended = 0 /\ stats_saved = "unset" /\ calls = 0
    /\ scraping_stats = <<>> /\ results = <<>> /\ csv = NoFile

InitAcquire ==
    /\ NoRun
    /\ media = [k \in Kinds |-> EmptyDir]
    /\ wpc = <<>> /\ wcall = <<>> /\ cached = <<>> /\ started = 0
    /\ acquisition = [kind |-> "", url |-> "", ret |-> NULL] /\ pipeline = <<>>
    /\ dashboard = <<>>
    /\ scraping_jobs = <<>> /\ triggers = <<>> /\ sched = <<>>

\* download_image(url) / download_video(url) (app.py 131-180, 183-237),
\* called without base_url
AcquireMedia ==
    /\ started < MaxAcquired
    /\ started' = started + 1
    /\ \E kind \in Kinds : \E url \in RemoteUrls(kind) :
          \E o \in DownloadUrl(kind, url, media[kind]) :
              /\ media' = [media EXCEPT ![kind] = o.dir]
              /\ acquisition' = [kind |-> kind, url |-> url, ret |-> o.ret]
    /\ UNCHANGED <<runVars, storeVars, wpc, wcall, cached, pipeline, jobVars, dashboard>>

SpecAcquire == InitAcquire /\ [][AcquireMedia]_vars

-----------------------------------------------------------------------------
(* DataCleaningPipeline.clean on its own: one pipeline and one input list  *)
(* are chosen at the start, and the loop applies the steps one by one      *)

MaxItems == 3           \* items in an input list over the small alphabets

\* items of the small alphabets: texts that differ by case, padding and
\* length, and URLs that differ by case and trailing slash
Items(data_type) ==
    IF data_type = "Text" THEN {"Abc", "abc", " abd ", "ab"}
    ELSE {"http://H.test/A/", "http://h.test/A", "http://h.test/a", "/a"}

\* the input lists: every list over the alphabet, and longer ones: texts
\* with inner and outer blanks, and references with and without scheme,
\* authority, query, fragment and trailing slashes
InputLists(data_type) ==
    UNION {[1..n -> Items(data_type)] : n \in 0..MaxItems}
    \cup (IF data_type = "Text"
          THEN {<<"  Hello &amp; world  ", "Hello & world", "a", "">>,
                <<"a b", "  a", "a  b", "abc", "  ">>}
          ELSE {<<"http://EXAMPLE.com/A/", "http://example.com/a", "not a url">>,
                <<"/a", "//h.test/a", "mailto:x", "http://H.test/a//", "http://h.test/?q#f">>,
                <<"http://h.test/", "http://H.test/A/?q", "/static/images/ab.png">>})

\* the step lists: create_default_pipeline(data_type), and lists a caller
\* builds with add_step (data_cleaning.py 240-247)
Pipelines(data_type) ==
    {create_default_pipeline(data_type)}
    \cup {<<[type |-> "remove_duplicates", options |-> [case_sensitive |-> cs]],
            [type |-> "remove_duplicates", options |-> [case_sensitive |-> cs]]>>
          : cs \in BOOLEAN}
    \cup {<<[type |-> "validate", options |-> NoOptions]>>}
    \cup {<<[type |-> "filter_by_length", options |-> [min_length |-> 3, max_length |-> 15]],
            [type |-> "remove_duplicates", options |-> NoOptions],
            [type |-> "clean_text", options |-> [lowercase |-> TRUE]],
            [type |-> "clean_url", options |-> [lowercase |-> FALSE]]>>}

InitClean ==
    /\ NoRun
    /\ media = [k \in Kinds |-> EmptyDir]
    /\ wpc = <<>> /\ wcall = <<>> /\ cached = <<>> /\ started = 0
    /\ acquisition = <<>> /\ dashboard = <<>>
    /\ scraping_jobs = <<>> /\ triggers = <<>> /\ sched = <<>>
    /\ \E data_type \in DataTypes : \E steps \in Pipelines(data_type) :
          \E data_list \in InputLists(data_type) :
              pipeline = [data_type |-> data_type, steps |-> steps, data_list |-> data_list,
                          applied |-> 0, before |-> data_list, cleaned_data |-> data_list,
                          returned |-> FALSE]

\* one turn of `for step in self.steps` (data_cleaning.py 257-302);
\* `before` keeps the list the step was given
CleanStep ==
    /\ pipeline # <<>> /\ ~pipeline.returned
    /\ pipeline.applied < Len(pipeline.steps)
    /\ pipeline' = [pipeline EXCEPT
                      !.applied = @ + 1,
                      !.before = pipeline.cleaned_data,
                      !.cleaned_data = ApplyStep(pipeline.steps[pipeline.applied + 1],
                                                 pipeline.cleaned_data, pipeline.data_type)]
    /\ UNCHANGED <<runVars, storeVars, media, workerVars, acquisition, jobVars, dashboard>>

\* `return cleaned_data` (data_cleaning.py 304-305)
CleanReturn ==
    /\ pipeline # <<>> /\ ~pipeline.returned
    /\ pipeline.applied = Len(pipeline.steps)
    /\ pipeline' = [pipeline EXCEPT !.returned = TRUE]
    /\ UNCHANGED <<runVars, storeVars, media, workerVars, acquisition, jobVars, dashboard>>

NextClean == CleanStep \/ CleanReturn

SpecClean == InitClean /\ [][NextClean]_vars

-----------------------------------------------------------------------------
(* The jobs and their triggers (app.py 540-653, 700-791; database.py       *)
(* 127-266).  Request threads run create_job, toggle_job and                *)
(* schedule_job_scraping step by step; a statement on the table and a call *)
(* of the scheduler are one step each (SQLite commits a statement whole,   *)
(* the scheduler changes its job store under its lock).                    *)

MaxJobs == 2            \* rows ever inserted into scraping_jobs
MaxJobCalls == 3        \* handler and function calls started in one behaviour

\* the schedule a form or a caller supplies: schedule_type, schedule_value
Schedules ==
    { <<"manual", NULL>>, <<"hourly", "2">>, <<"hourly", "mon">>,
      <<"daily", "09:30">>, <<"daily", NULL>>, <<"weekly", "mon">> }

\* the schedule an update writes: cleared, or set anew
Updates == { <<NULL, NULL>>, <<"daily", "09:30">> }

\* row of scraping_jobs (database.py 56-70), the columns the scheduling reads
\* and writes; updated_at counts the updates of the row, and last_run the
\* runs recorded in it (0 for NULL)
JobRow(schedule_type, schedule_value) ==
    [is_active |-> 1, schedule_type |-> schedule_type, schedule_value |-> schedule_value,
     last_run |-> 0, updated_at |-> 0]

\* the table: the rows by id, and the last id AUTOINCREMENT has handed out
NoJobs == [rows |-> <<>>, seq |-> 0]

\* db.create_scraping_job (database.py 127-150): the table and cursor.lastrowid
create_scraping_job(jobs, schedule_type, schedule_value) ==
    [rows |-> (jobs.seq + 1 :> JobRow(schedule_type, schedule_value)) @@ jobs.rows,
     seq |-> jobs.seq + 1]

\* db.get_scraping_job (database.py 187-205): <<row>>, or <<>> for None
get_scraping_job(jobs, job_id) ==
    IF job_id \in DOMAIN jobs.rows THEN <<jobs.rows[job_id]>> ELSE <<>>

\* an update that writes every column it may set, NULL where none is given
update_every_column(jobs, job_id, fields) ==
    IF job_id \notin DOMAIN jobs.rows THEN jobs
    ELSE [jobs EXCEPT !.rows[job_id] =
            [c \in DOMAIN @ |-> IF c \in DOMAIN fields THEN fields[c]
                                ELSE IF c = "updated_at" THEN @[c] + 1
                                ELSE IF c \in {"is_active", "last_run"} THEN 0
                                ELSE NULL]]

\* db.update_scraping_job (database.py 208-243): the columns of `fields` and
\* updated_at are set in the row with that id, if there is one
update_scraping_job(jobs, job_id, fields) ==
    IF job_id \notin DOMAIN jobs.rows THEN jobs
    ELSE [jobs EXCEPT !.rows[job_id] =
            [c \in DOMAIN @ |-> IF c \in DOMAIN fields THEN fields[c]
                                ELSE IF c = "updated_at" THEN @[c] + 1
                                ELSE @[c]]]

\* db.delete_scraping_job (database.py 246-266), the table scraping_jobs
delete_scraping_job(jobs, job_id) ==
    [jobs EXCEPT !.rows = [i \in DOMAIN @ \ {job_id} |-> @[i]]]

\* a delete that leaves the rows of the other tables
DeleteNoRows(table, job_id) == table

\* DELETE FROM results WHERE job_id = ? and DELETE FROM scraping_stats WHERE
\* job_id = ? (database.py 253-254)
DeleteRows(table, job_id) ==
    LET Other(row) == row.job_id # job_id
    IN  SelectSeq(table, Other)

\* f"job_{job_id}"
TriggerId(job_id) == "job_" \o ToString(job_id)

\* the job store when the application starts: the task of app.py 805
StartTriggers == <<[id |-> "storage_cleanup", trigger |-> "interval", args |-> 0]>>

HasTrigger(store, id) == \E i \in 1..Len(store) : store[i].id = id

\* scheduler.remove_job(id): JobLookupError when the store has no such id
remove_job(store, id) ==
    LET Other(t) == t.id # id
    IN  [raised |-> ~HasTrigger(store, id), store |-> SelectSeq(store, Other)]

\* an add that takes the id as it comes
add_job_unchecked(store, job) == [raised |-> FALSE, store |-> Append(store, job)]

\* scheduler.add_job(id=..., ...) on the running scheduler (app.py 49):
\* ConflictingIdError when the store holds the id, replace_existing being off
add_job(store, job) ==
    IF HasTrigger(store, job.id) THEN [raised |-> TRUE, store |-> store]
    ELSE [raised |-> FALSE, store |-> Append(store, job)]

\* int(s) raises ValueError unless s is a decimal numeral
RECURSIVE IsNumeral(_)
IsNumeral(s) ==
    IF s = "" THEN FALSE
    ELSE /\ Ch(s, 1) \in DigitChars
         /\ (Len(s) = 1 \/ IsNumeral(SubSeq(s, 2, Len(s))))

\* hour, minute = map(int, schedule_value.split(':')) goes through
IsHourMinute(s) ==
    /\ Cardinality(Occurrences(s, ":")) = 1
    /\ IsNumeral(SubSeq(s, 1, Find(s, ":") - 1))
    /\ IsNumeral(SubSeq(s, Find(s, ":") + 1, Len(s)))

\* lines 715-754 of schedule_job_scraping: the triggers the call hands to
\* add_job (one or none), unless int() raises ValueError first
TriggerFor(job_id, schedule_type, schedule_value) ==
    LET given == schedule_value \notin {NULL, ""}
        one(trigger) == <<[id |-> TriggerId(job_id), trigger |-> trigger, args |-> job_id]>>
    IN  IF schedule_type = "hourly"
        THEN [raised |-> given /\ ~IsNumeral(schedule_value), add |-> one("interval")]
        ELSE IF schedule_type = "daily" /\ given
        THEN [raised |-> ~IsHourMinute(schedule_value), add |-> one("cron")]
        ELSE IF schedule_type = "weekly" /\ given
        THEN [raised |-> FALSE, add |-> one("cron")]
        ELSE [raised |-> FALSE, add |-> <<>>]

\* schedule_job_scraping(job_id) run without interruption (app.py 700-754):
\* the job store it leaves, and whether it raised
schedule_job_scraping(jobs, store, job_id) ==
    LET job == get_scraping_job(jobs, job_id)
        new == TriggerFor(job_id, job[1].schedule_type, job[1].schedule_value)
        removed == remove_job(store, TriggerId(job_id)).store
    IN  IF job = <<>> THEN [raised |-> FALSE, store |-> store]
        ELSE IF job[1].schedule_type \in {NULL, ""} THEN [raised |-> FALSE, store |-> store]
        ELSE IF new.raised \/ new.add = <<>> THEN [raised |-> new.raised, store |-> removed]
        ELSE add_job(removed, new.add[1])

\* schedule_active_jobs (app.py 785-791): the active rows with a schedule,
\* from the latest down, each handed to schedule_job_scraping; an error
\* of one call ends the loop
RECURSIVE ScheduleFrom(_, _, _)
ScheduleFrom(jobs, store, job_id) ==
    IF job_id = 0 THEN store
    ELSE IF /\ job_id \in DOMAIN jobs.rows
            /\ jobs.rows[job_id].is_active = 1
            /\ jobs.rows[job_id].schedule_type \notin {NULL, "", "manual"}
    THEN IF schedule_job_scraping(jobs, store, job_id).raised
         THEN schedule_job_scraping(jobs, store, job_id).store
         ELSE ScheduleFrom(jobs, schedule_job_scraping(jobs, store, job_id).store, job_id - 1)
    ELSE ScheduleFrom(jobs, store, job_id - 1)

\* a thread outside every call
NoJobCall == [op |-> "none", pc |-> "idle", job_id |-> 0, job |-> <<>>, raised |-> FALSE]

\* the tables a start of the application can find: none, or the rows of earlier runs
StoredJobs ==
    {NoJobs}
    \cup {create_scraping_job(NoJobs, s[1], s[2]) : s \in {<<"hourly", "2">>, <<NULL, NULL>>}}
    \cup {update_scraping_job(create_scraping_job(NoJobs, "daily", "09:30"), 1,
                               [is_active |-> 0])}

InitJobs ==
    /\ NoRun
    /\ media = [k \in Kinds |-> EmptyDir]
    /\ wpc = <<>> /\ wcall = <<>> /\ cached = <<>> /\ started = 0
    /\ acquisition = <<>> /\ pipeline = <<>> /\ dashboard = <<>>
    /\ scraping_jobs \in StoredJobs
    /\ triggers = StartTriggers
    /\ sched = [first_request |-> FALSE, call |-> [w \in Workers |-> NoJobCall]]

Free(w) == sched.first_request /\ sched.call[w].pc \in {"idle", "done"} /\ started < MaxJobCalls

Begin(w, call) ==
    /\ sched' = [sched EXCEPT !.call[w] = call]
    /\ started' = started + 1

Step(w, call) == sched' = [sched EXCEPT !.call[w] = call]

jobsOnly == <<runVars, storeVars, media, wpc, wcall, cached, acquisition, pipeline,
              dashboard>>

\* the first request: schedule_active_jobs runs before any handler
\* (@app.before_first_request, app.py 785-791)
FirstRequest ==
    /\ ~sched.first_request
    /\ sched' = [sched EXCEPT !.first_request = TRUE]
    /\ triggers' = ScheduleFrom(scraping_jobs, triggers, scraping_jobs.seq)
    /\ UNCHANGED <<jobsOnly, started, scraping_jobs>>

\* create_job, POST (app.py 556-572): the row is inserted, and the thread
\* enters schedule_job_scraping(job_id) when the form names a schedule
CreateJob(w) ==
    /\ Free(w) /\ scraping_jobs.seq < MaxJobs
    /\ \E s \in Schedules :
          /\ scraping_jobs' = create_scraping_job(scraping_jobs,
                                  IF s[1] # "manual" THEN s[1] ELSE NULL, s[2])
          /\ Begin(w, [op |-> "create_job",
                       pc |-> IF s[1] # "manual" THEN "get_job" ELSE "done",
                       job_id |-> scraping_jobs.seq + 1, job |-> <<>>, raised |-> FALSE])
    /\ UNCHANGED <<jobsOnly, triggers>>

\* a call of schedule_job_scraping(job_id) for a row that was inserted before
Reschedule(w) ==
    /\ Free(w)
    /\ \E job_id \in 1..scraping_jobs.seq :
          Begin(w, [op |-> "schedule_job_scraping", pc |-> "get_job",
                    job_id |-> job_id, job |-> <<>>, raised |-> FALSE])
    /\ UNCHANGED <<jobsOnly, scraping_jobs, triggers>>

\* lines 702-704: job = db.get_scraping_job(job_id), and the early return
GetJob(w) ==
    /\ sched.call[w].pc = "get_job"
    /\ LET job == get_scraping_job(scraping_jobs, sched.call[w].job_id)
       IN  Step(w, [sched.call[w] EXCEPT
                      !.job = job,
                      !.pc = IF job = <<>> THEN "done"
                             ELSE IF job[1].schedule_type \in {NULL, ""} THEN "done"
                             ELSE "remove_job"])
    /\ UNCHANGED <<jobsOnly, started, scraping_jobs, triggers>>

\* lines 709-713: scheduler.remove_job(f"job_{job_id}"), its error swallowed
RemoveJob(w) ==
    /\ sched.call[w].pc = "remove_job"
    /\ triggers' = remove_job(triggers, TriggerId(sched.call[w].job_id)).store
    /\ Step(w, [sched.call[w] EXCEPT !.pc = "add_job"])
    /\ UNCHANGED <<jobsOnly, started, scraping_jobs>>

\* lines 715-754: the trigger is built from the row read at line 702 and
\* handed to scheduler.add_job; ValueError and ConflictingIdError leave the call
AddJob(w) ==
    /\ sched.call[w].pc = "add_job"
    /\ LET job == sched.call[w].job[1]
           new == TriggerFor(sched.call[w].job_id, job.schedule_type, job.schedule_value)
           added == IF new.raised \/ new.add = <<>>
                    THEN [raised |-> new.raised, store |-> triggers]
                    ELSE add_job(triggers, new.add[1])
       IN  /\ triggers' = added.store
           /\ Step(w, [sched.call[w] EXCEPT !.pc = "done", !.raised = added.raised])
    /\ UNCHANGED <<jobsOnly, started, scraping_jobs>>

\* db.update_scraping_job(job_id, schedule_type=..., schedule_value=...)
\* (database.py 208-243): the schedule of a row is set or cleared
UpdateSchedule ==
    /\ sched.first_request /\ started < MaxJobCalls
    /\ started' = started + 1
    /\ \E job_id \in DOMAIN scraping_jobs.rows : \E s \in Updates :
          scraping_jobs' = update_scraping_job(scraping_jobs, job_id,
                              [schedule_type |-> s[1], schedule_value |-> s[2]])
    /\ UNCHANGED <<jobsOnly, triggers, sched>>

\* toggle_job (app.py 629-635): job = db.get_scraping_job(job_id)
ToggleRead(w) ==
    /\ Free(w)
    /\ \E job_id \in 1..scraping_jobs.seq :
          LET job == get_scraping_job(scraping_jobs, job_id)
          IN  Begin(w, [op |-> "toggle_job", pc |-> IF job = <<>> THEN "done" ELSE "update",
                        job_id |-> job_id, job |-> job, raised |-> FALSE])
    /\ UNCHANGED <<jobsOnly, scraping_jobs, triggers>>

\* toggle_job (app.py 637-638): the flag read is negated and written
ToggleWrite(w) ==
    /\ sched.call[w].pc = "update"
    /\ scraping_jobs' = update_scraping_job(scraping_jobs, sched.call[w].job_id,
                            [is_active |-> IF sched.call[w].job[1].is_active # 0 THEN 0 ELSE 1])
    /\ Step(w, [sched.call[w] EXCEPT !.pc = "done"])
    /\ UNCHANGED <<jobsOnly, started, triggers>>

\* delete_job (app.py 645-653): db.delete_scraping_job(job_id) removes the
\* rows of the job from the three tables and commits, or an error rolls
\* the transaction back (database.py 251-264)
DeleteJob ==
    /\ sched.first_request /\ started < MaxJobCalls
    /\ started' = started + 1
    /\ \E job_id \in DOMAIN scraping_jobs.rows :
          \/ /\ scraping_jobs' = delete_scraping_job(scraping_jobs, job_id)
             /\ results' = DeleteRows(results, job_id)
             /\ scraping_stats' = DeleteRows(scraping_stats, job_id)
          \/ UNCHANGED <<scraping_jobs, results, scraping_stats>>
    /\ UNCHANGED <<runVars, csv, media, wpc, wcall, cached, acquisition, pipeline,
                   triggers, sched, dashboard>>

NextJobs ==
    \/ FirstRequest
    \/ UpdateSchedule
    \/ DeleteJob
    \/ \E w \in Workers :
          \/ CreateJob(w) \/ Reschedule(w) \/ GetJob(w) \/ RemoveJob(w) \/ AddJob(w)
          \/ ToggleRead(w) \/ ToggleWrite(w)

SpecJobs == InitJobs /\ [][NextJobs]_vars

-----------------------------------------------------------------------------
(* The triggers fire (app.py 756-782): threads of the scheduler run        *)
(* run_scheduled_job while request threads toggle and delete jobs.  The    *)
(* tables hold the rows of earlier runs; a row of results or of            *)
(* scraping_stats is its job_id and one more column.                       *)

\* the rows earlier runs left: of job 1, of job 2 and of runs without a job
StoredStats == <<[job_id |-> 1, success |-> TRUE], [job_id |-> 2, success |-> FALSE],
                 [job_id |-> NoJob, success |-> TRUE], [job_id |-> 1, success |-> FALSE]>>
StoredResults == <<[job_id |-> 1, extracted_data |-> "a"], [job_id |-> NoJob, extracted_data |-> "b"],
                   [job_id |-> 2, extracted_data |-> "c"], [job_id |-> 1, extracted_data |-> "d"]>>

\* two stored jobs with a schedule, the second one active or not
StoredSchedules ==
    {update_scraping_job(
         create_scraping_job(create_scraping_job(NoJobs, "hourly", "2"), "daily", "09:30"),
         2, [is_active |-> a]) : a \in {0, 1}}

InitFire ==
    /\ pc = "idle" /\ request = NoRequest
    /\ success = TRUE /\ error_message = NULL
    /\ soup = NoSoup /\ elements = <<>> /\ locals = NoLocals /\ exit = NoExit
    /\ direct_calls = 0 /\ selenium_calls = 0 /\ direct_result = "none"
    /\ stats_appended = 0 /\ stats_saved = "unset" /\ calls = 0
    /\ csv = NoFile
    /\ \/ scraping_stats = <<>> /\ results = <<>>
       \/ scraping_stats = StoredStats /\ results = StoredResults
    /\ media = [k \in Kinds |-> EmptyDir]
    /\ wpc = <<>> /\ wcall = <<>> /\ cached = <<>> /\ started = 0
    /\ acquisition = <<>> /\ pipeline = <<>> /\ dashboard = <<>>
    /\ scraping_jobs \in StoredSchedules
    /\ triggers = StartTriggers
    /\ sched = [first_request |-> FALSE, call |-> [w \in Workers |-> NoJobCall]]

\* what scrape_website(..., job_id=job_id) leaves in the tables and whether
\* it raises (app.py 270-421): the RunStats row unless its insert fails, the
\* Result rows of a run with items unless their insert fails; an error other
\* than a network error of the direct attempt leaves the call
RunOutcomes(job_id) ==
    { [raised |-> FALSE, stats |-> <<[job_id |-> job_id, success |-> TRUE]>>,
       results |-> <<[job_id |-> job_id, extracted_data |-> "a"]>>],
      [raised |-> FALSE, stats |-> <<[job_id |-> job_id, success |-> FALSE]>>, results |-> <<>>],
      [raised |-> FALSE, stats |-> <<>>, results |-> <<>>],
      [raised |-> TRUE, stats |-> <<[job_id |-> job_id, success |-> TRUE]>>, results |-> <<>>] }

fireOnly == <<runVars, csv, media, wpc, wcall, cached, acquisition, pipeline, triggers,
              dashboard>>

\* a trigger fires: run_scheduled_job(job_id) reads the job and returns
\* when there is none or it is not active (app.py 758-760); the scheduler
\* runs one instance of a trigger at a time
FireGet(w) ==
    /\ Free(w)
    /\ \E job_id \in 1..scraping_jobs.seq :
          /\ HasTrigger(triggers, TriggerId(job_id))
          /\ \A v \in Workers :
                ~(/\ sched.call[v].op = "run_scheduled_job"
                  /\ sched.call[v].job_id = job_id /\ sched.call[v].pc # "done")
          /\ LET job == get_scraping_job(scraping_jobs, job_id)
             IN  Begin(w, [op |-> "run_scheduled_job",
                           pc |-> IF job = <<>> THEN "done"
                                  ELSE IF job[1].is_active = 0 THEN "done"
                                  ELSE "scrape",
                           job_id |-> job_id, job |-> job, raised |-> FALSE])
    /\ UNCHANGED <<fireOnly, scraping_jobs, scraping_stats, results>>

\* lines 764-773: scrape_website runs; an exception goes to the except
\* clause of line 781, which logs it
FireRun(w) ==
    /\ sched.call[w].pc = "scrape"
    /\ \E o \in RunOutcomes(sched.call[w].job_id) :
          /\ scraping_stats' = scraping_stats \o o.stats
          /\ results' = results \o o.results
          /\ Step(w, [sched.call[w] EXCEPT !.pc = IF o.raised THEN "done" ELSE "last_run",
                                           !.raised = o.raised])
    /\ UNCHANGED <<fireOnly, started, scraping_jobs>>

\* a return that leaves last_run as it was
FireUpdateSkipped(w) ==
    /\ sched.call[w].pc = "last_run"
    /\ Step(w, [sched.call[w] EXCEPT !.pc = "done"])
    /\ UNCHANGED <<fireOnly, started, scraping_jobs, scraping_stats, results>>

\* lines 775-779: db.update_scraping_job(job_id, last_run=...)
FireUpdate(w) ==
    /\ sched.call[w].pc = "last_run"
    /\ scraping_jobs' = update_scraping_job(scraping_jobs, sched.call[w].job_id,
                            [last_run |-> IF sched.call[w].job_id \in DOMAIN scraping_jobs.rows
                                          THEN scraping_jobs.rows[sched.call[w].job_id].last_run + 1
                                          ELSE 1])
    /\ Step(w, [sched.call[w] EXCEPT !.pc = "done"])
    /\ UNCHANGED <<fireOnly, started, scraping_stats, results>>

NextFire ==
    \/ FirstRequest
    \/ DeleteJob
    \/ \E w \in Workers :
          \/ FireGet(w) \/ FireRun(w) \/ FireUpdate(w)
          \/ ToggleRead(w) \/ ToggleWrite(w)

SpecFire == InitFire /\ [][NextFire]_vars

-----------------------------------------------------------------------------
(* The dashboard (database.py 325-358): runs append to scraping_stats,     *)
(* which holds the rows of the runs before this start of the program, and  *)
(* the dashboard route reads the statistics.                               *)

RecentRuns == 100       \* LIMIT 100 of the success-rate query

\* n stored rows of runs that all ended the same way
StoredRuns(n, ok) == [i \in 1..n |-> [job_id |-> NoJob, success |-> ok]]

InitDash ==
    /\ pc = "idle" /\ request = NoRequest
    /\ success = TRUE /\ error_message = NULL
    /\ soup = NoSoup /\ elements = <<>> /\ locals = NoLocals /\ exit = NoExit
    /\ direct_calls = 0 /\ selenium_calls = 0 /\ direct_result = "none"
    /\ stats_appended = 0 /\ stats_saved = "unset" /\ calls = 0
    /\ csv = NoFile /\ results = <<>>
    /\ \E n \in {0, RecentRuns - 1, RecentRuns} : \E ok \in BOOLEAN :
          scraping_stats = StoredRuns(n, ok)
    /\ media = [k \in Kinds |-> EmptyDir]
    /\ wpc = <<>> /\ wcall = <<>> /\ cached = <<>> /\ started = 0
    /\ acquisition = <<>> /\ pipeline = <<>> /\ dashboard = <<>>
    /\ scraping_jobs = NoJobs /\ triggers = <<>> /\ sched = <<>>

\* SELECT COUNT(*) as total, SUM(success) as successful FROM scraping_stats
\* (lines 346-350): an aggregate without GROUP BY, one row over the table
AggregateRows(table) ==
    <<[total |-> Len(table),
       successful |-> Cardinality({i \in 1..Len(table) : table[i].success})]>>

\* LIMIT n on the rows of a query (line 352; ORDER BY of line 351 orders
\* the rows of the aggregate)
Limit(rows, n) == SubSeq(rows, 1, IF Len(rows) < n THEN Len(rows) ELSE n)

\* stats['success_rate'] (lines 345-358): (row[1] / row[0]) * 100 of the
\* row fetched, as the fraction num/den, and 0 without rows
SuccessRate(table) ==
    LET row == Limit(AggregateRows(table), RecentRuns)[1]
    IN  IF row.total > 0 THEN [num |-> row.successful * 100, den |-> row.total]
        ELSE [num |-> 0, den |-> 1]

\* db.get_dashboard_stats() (database.py 325-358): the totals and the rate
get_dashboard_stats ==
    [total_items |-> Len(results), success_rate |-> SuccessRate(scraping_stats)]

\* a run of scrape_website from the form (app.py 270-421), taken whole
DashRun ==
    /\ calls < MaxCalls
    /\ calls' = calls + 1
    /\ \E o \in RunOutcomes(NoJob) :
          /\ scraping_stats' = scraping_stats \o o.stats
          /\ results' = results \o o.results
    /\ UNCHANGED <<pc, request, success, error_message, soup, elements, locals, exit,
                   direct_calls, selenium_calls, direct_result, stats_appended, stats_saved,
                   csv, media, workerVars, acquisition, pipeline, jobVars, dashboard>>

\* the dashboard route (app.py 663): stats = db.get_dashboard_stats()
Dashboard ==
    /\ dashboard' = <<get_dashboard_stats>>
    /\ UNCHANGED <<runVars, storeVars, media, workerVars, acquisition, pipeline, jobVars>>

NextDash == DashRun \/ Dashboard

SpecDash == InitDash /\ [][NextDash]_vars

-----------------------------------------------------------------------------
(* The run accounting and the fetch of scrape_website                      *)

SingleError(items) == Len(items) = 1 /\ items[1].type = "error"

LastStatsRow == scraping_stats[Len(scraping_stats)]

\* the three aborts of scrape_website: the URL is rejected, both fetch tiers
\* fail, the data type is unknown
InvalidURL == ~validate_url(request.url)
FetchError == direct_result = "RequestException" /\ selenium_calls = 1 /\ soup = NoSoup
InvalidDataKind == soup # NoSoup /\ request.data_type \notin DataTypes
Aborted == InvalidURL \/ FetchError \/ InvalidDataKind

\* C1, as the specification states it: every call of scrape_website, however
\* it exits, appends exactly one RunStats row
C1_ExactlyOneStatsRow ==
    pc = "done" => stats_appended = 1

\* C1, amended: every call of scrape_website, however it exits, runs the
\* RunStats insert exactly once; it appends exactly one row when that insert
\* succeeds and none when the insert itself fails, and never more than one
C1_OneStatsInsert ==
    /\ stats_appended <= 1
    /\ pc = "done" => /\ stats_saved # "unset"
                      /\ stats_appended = (IF stats_saved = "True" THEN 1 ELSE 0)
    /\ pc \notin {"done"} => stats_saved = "unset" /\ stats_appended = 0

\* a call that was aborted has appended its one row
C1_Witness ==
    pc = "done" /\ Aborted /\ stats_saved = "True" /\ stats_appended = 1

\* C2: every aborted run (InvalidURL, FetchError, InvalidDataKind) returns a
\* list holding exactly one error item, and the RunStats row it writes has
\* success = false and a non-null error_message
C2_AbortedRunRecorded ==
    (pc = "done" /\ Aborted) =>
        /\ exit.kind = "return" /\ SingleError(exit.value)
        /\ stats_appended = 1 => /\ LastStatsRow.success = FALSE
                                 /\ LastStatsRow.error_message # NULL

C4_ItemsOrError ==
    pc = "done" =>
        /\ exit.kind = "return"
        /\ \/ SingleError(exit.value)
           \/ /\ exit.value # <<>>
              /\ \A i \in 1..Len(exit.value) : exit.value[i].type = request.data_type

\* C4, amended: every call returns either a list of {data_kind, content}
\* items, empty when no element was extracted or none survived the cleaning,
\* or a list of exactly one error item; no exception of the rendering
\* fallback, the CSV write, the Result write or the RunStats write escapes,
\* and the only exception that reaches the caller is one the direct attempt
\* raised that is not a network error
C4_ItemsOrErrorOrDirectRaise ==
    pc = "done" =>
        \/ /\ exit.kind = "return"
           /\ \/ SingleError(exit.value)
              \/ /\ \A i \in 1..Len(exit.value) : exit.value[i].type = request.data_type
                 /\ "cleaned_data" \in DOMAIN locals
                 /\ Len(exit.value) = Len(locals.cleaned_data)
        \/ /\ exit.kind = "raise"
           /\ direct_result = "OtherError" /\ selenium_calls = 0

\* a call on a page with elements that returned the empty list: everything
\* extracted was dropped by the cleaning
C4_Witness ==
    /\ pc = "done" /\ exit = Returns(<<>>) /\ success
    /\ locals.extracted_data # <<>>

-----------------------------------------------------------------------------
(* The media cache: capacity, eviction order, idempotence, threads         *)

InPass(w) == wpc[w] \in {"size", "list", "remove"}

Downloading(w) == wcall[w].op = "download" /\ wpc[w] \in {"get", "write"}

\* C5: once every acquisition that was started has completed, successful or
\* failed, the regular files of each media directory total at most
\* MAX_STORAGE_SIZE bytes
C5_CapacityKept ==
    (\A w \in Workers : wpc[w] = "idle") => \A k \in Kinds : get_folder_size(media[k]) <= MAX_STORAGE_SIZE

\* C6: every file that leaves a media directory is, at that moment, the file
\* of the directory that was created first, and leaves while the directory
\* totals more than MAX_STORAGE_SIZE
C6_EvictsEarliestOverCapacity ==
    [][\A k \in Kinds : \A f \in DOMAIN media[k].size :
          f \notin DOMAIN media'[k].size =>
              /\ f = Head(media[k].birth)
              /\ get_folder_size(media[k]) > MAX_STORAGE_SIZE]_vars

\* C7: an acquisition of a URL for which an earlier, finished acquisition
\* returned a local reference, and whose file has stayed in the directory
\* since, calls requests.get not at all and returns that same reference
C7_SecondAcquisitionReusesFile ==
    \A w \in Workers :
        (wpc[w] = "ret" /\ wcall[w].op = "download" /\ wcall[w].prior # NULL) =>
            /\ ~wcall[w].fetched
            /\ wcall[w].ret = wcall[w].prior

\* a second acquisition about to return the reference of the first
C7_Witness ==
    \E w \in Workers :
        /\ wpc[w] = "ret" /\ wcall[w].op = "download"
        /\ wcall[w].prior # NULL /\ wcall[w].ret = wcall[w].prior
        /\ Exists(media[wcall[w].kind], wcall[w].name)

\* C8: of the workers that acquire one URL at the same time, one only
\* downloads and writes the file: no two of them are past the existence
\* test and before the end of the write together
C8_OneDownloader ==
    \A v, w \in Workers :
        (v # w /\ Downloading(v) /\ Downloading(w)) => wcall[v].name # wcall[w].name

\* C9: no two eviction passes run on the directory of one media kind at the
\* same time
C9_OnePassPerKind ==
    \A v, w \in Workers :
        (v # w /\ InPass(v) /\ InPass(w)) => wcall[v].kind # wcall[w].kind

\* C10: the file a worker is still writing is not deleted: the handle it
\* writes through stays the file of that name
C10_InFlightKept ==
    \A w \in Workers : wpc[w] = "write" => wcall[w].linked

-----------------------------------------------------------------------------
(* The media cache: what a file stands for, the content type               *)

\* the file of a URL is in the directory, written whole
Complete(kind, url) ==
    /\ Exists(media[kind], Filename(kind, url))
    /\ media[kind].size[Filename(kind, url)] = ContentSize(url)

\* C11: a media directory holds one file per binary content: no two files
\* written whole from different URLs hold the same bytes
C11_OneFilePerContent ==
    \A k \in Kinds : \A u, v \in RemoteUrls(k) :
        (u # v /\ ContentOf(u) = ContentOf(v)) => ~(Complete(k, u) /\ Complete(k, v))

\* C12: an acquisition whose response declares a content type outside the
\* family of its kind (image/*, video/*) returns null and leaves the media
\* directory as it was
C12_WrongTypeNotCached ==
    [][(/\ started' # started
        /\ ~Exists(media[acquisition'.kind], Filename(acquisition'.kind, acquisition'.url))
        /\ ~StartsWith(ContentType(acquisition'.url), MediaFamily(acquisition'.kind) \o "/"))
          => (acquisition'.ret = NULL /\ media' = media)]_vars

\* the extraction loop passes the element to download_image / download_video
Downloads(element, req) ==
    \/ req.data_type = "Images" /\ req.download_images
    \/ req.data_type = "Videos" /\ element.name = "video" /\ req.download_videos

\* the acquisition of `url` made by the step failed: its file was not there
\* before and is not there, written whole, after
FailedHere(kind, url) ==
    /\ ~Exists(media[kind], Filename(kind, url))
    /\ ~(/\ Exists(media'[kind], Filename(kind, url))
         /\ media'[kind].size[Filename(kind, url)] = ContentSize(url))

FailedStep(kind, url) ==
    FailedHere(kind, url) =>
        /\ pc' = "extract" /\ exit' = NoExit /\ success' = TRUE
        /\ elements' = Tail(elements)
        /\ locals'.extracted_data = Append(locals.extracted_data, url)

\* C13: a pass of the extraction loop whose media acquisition fails does not
\* end the run: the loop goes on with the remaining elements, nothing is
\* raised, and the item of the element is its normalized remote URL
C13_FailedAcquisitionKeepsRun ==
    [][(/\ pc = "extract" /\ elements # <<>> /\ elements' # elements
        /\ Downloads(Head(elements), request)
        /\ Head(elements).value # NULL
        /\ normalize_url(Head(elements).value, request.url) # NULL)
          => FailedStep(IF request.data_type = "Images" THEN "images" ELSE "videos",
                        normalize_url(Head(elements).value, request.url))]_vars

\* a run that went on after a failed acquisition: the first item is the
\* remote URL of the first image and a second item was extracted after it
C13_Witness ==
    /\ request.data_type = "Images" /\ request.download_images
    /\ "extracted_data" \in DOMAIN locals
    /\ Len(locals.extracted_data) >= 2
    /\ locals.extracted_data[1] = "http://site.test/dir/pic.png"

-----------------------------------------------------------------------------
(* The cleaning pipeline                                                   *)

DefaultLinksInput == <<"http://EXAMPLE.com/A/", "http://example.com/a", "not a url">>
DefaultTextInput == <<"  Hello &amp; world  ", "Hello & world", "a", "">>

\* clean has returned from the default pipeline of data_type on data_list
ReturnedDefault(data_type, data_list) ==
    /\ pipeline # <<>> /\ pipeline.returned
    /\ pipeline.data_type = data_type
    /\ pipeline.steps = create_default_pipeline(data_type)
    /\ pipeline.data_list = data_list

\* C14: the default Links pipeline applied to ["http://EXAMPLE.com/A/",
\* "http://example.com/a", "not a url"] returns exactly
\* ["http://example.com/a"].
C14_DefaultLinksExample ==
    ReturnedDefault("Links", DefaultLinksInput)
        => pipeline.cleaned_data = <<"http://example.com/a">>

\* C15: the default Text pipeline applied to ["  Hello &amp; world  ",
\* "Hello & world", "a", ""] returns exactly ["hello & world"].
C15_DefaultTextExample ==
    ReturnedDefault("Text", DefaultTextInput)
        => pipeline.cleaned_data = <<"hello & world">>

\* C15 as amended: the default Text pipeline applied to
\* ["  Hello &amp; world  ", "Hello & world", "a", ""] returns exactly
\* ["Hello & world"]: the first of the two entries that are equal up to
\* case, in its own spelling.
C15_DefaultTextKeepsCase ==
    ReturnedDefault("Text", DefaultTextInput)
        => pipeline.cleaned_data = <<"Hello & world">>

\* the default Text pipeline has returned from that list
C15_Witness ==
    /\ ReturnedDefault("Text", DefaultTextInput)
    /\ Len(pipeline.cleaned_data) = 1

\* the items of L that no earlier item equals (up to case unless
\* case_sensitive), in the order of L
FirstOccurrences(L, case_sensitive) ==
    LET Key(i) == IF case_sensitive THEN L[i] ELSE Lower(L[i])
        first == {i \in 1..Len(L) : \A j \in 1..(i - 1) : Key(j) # Key(i)}
        Nth(k) == CHOOSE i \in first : Cardinality({j \in first : j <= i}) = k
    IN  [k \in 1..Cardinality(first) |-> L[Nth(k)]]

\* the step the loop has just applied is remove_duplicates
DedupApplied(n) ==
    /\ pipeline # <<>> /\ pipeline.applied >= n /\ n >= 1
    /\ pipeline.steps[n].type = "remove_duplicates"

CaseSensitive(n) == Get(pipeline.steps[n].options, "case_sensitive", TRUE)

\* C16: in both comparison modes remove_duplicates applied to its own
\* output returns that output, and its output is the list of the first
\* occurrences of the distinct items (distinct up to case when the
\* comparison is case-insensitive) in input order: for every list the
\* pipeline holds, and for the remove_duplicates steps the loop has applied.
C16_DedupIdempotent ==
    pipeline # <<>> =>
        /\ \A cs \in BOOLEAN :
              /\ remove_duplicates(remove_duplicates(pipeline.cleaned_data, cs), cs)
                    = remove_duplicates(pipeline.cleaned_data, cs)
              /\ remove_duplicates(pipeline.cleaned_data, cs)
                    = FirstOccurrences(pipeline.cleaned_data, cs)
        /\ DedupApplied(pipeline.applied)
             => pipeline.cleaned_data
                    = FirstOccurrences(pipeline.before, CaseSensitive(pipeline.applied))
        /\ (/\ DedupApplied(pipeline.applied)
            /\ DedupApplied(pipeline.applied - 1)
            /\ CaseSensitive(pipeline.applied) = CaseSensitive(pipeline.applied - 1))
             => pipeline.cleaned_data = pipeline.before

\* remove_duplicates has run twice, case-insensitively, on a list of which
\* the first run dropped an item that differs from a kept one only by case
C16_Witness ==
    /\ DedupApplied(2) /\ DedupApplied(1) /\ pipeline.applied = 2
    /\ ~CaseSensitive(1) /\ ~CaseSensitive(2)
    /\ Len(pipeline.before) < Len(pipeline.data_list)
    /\ Len(remove_duplicates(pipeline.data_list, TRUE)) = Len(pipeline.data_list)
    /\ pipeline.cleaned_data = pipeline.before

\* the steps that rewrite an item, among the first n of the pipeline
MapSteps(n) ==
    LET Rewrites(step) == step.type \in {"clean_text", "clean_url"}
    IN  SelectSeq(SubSeq(pipeline.steps, 1, n), Rewrites)

\* a is b with some items left out
RECURSIVE IsSubsequence(_, _)
IsSubsequence(a, b) ==
    IF a = <<>> THEN TRUE
    ELSE IF b = <<>> THEN FALSE
    ELSE IF Head(a) = Head(b) THEN IsSubsequence(Tail(a), Tail(b))
    ELSE IsSubsequence(a, Tail(b))

\* C17: whatever the pipeline, the list it holds is never longer than the
\* list it was given, and the surviving items are in the order of the
\* inputs they come from: the list is the rewritten input with items left out.
C17_CleanedAtMostExtracted ==
    pipeline # <<>> =>
        /\ Len(pipeline.cleaned_data) <= Len(pipeline.data_list)
        /\ IsSubsequence(pipeline.cleaned_data,
                         PipelineClean(MapSteps(pipeline.applied), pipeline.data_list,
                                       pipeline.data_type))

\* a pipeline has returned fewer items than it was given, at least two,
\* and has rewritten the first of them
C17_Witness ==
    /\ pipeline # <<>> /\ pipeline.returned
    /\ Len(pipeline.cleaned_data) < Len(pipeline.data_list)
    /\ Len(pipeline.cleaned_data) >= 2
    /\ pipeline.cleaned_data[1] # pipeline.cleaned_data[2]
    /\ \A i \in 1..Len(pipeline.data_list) : pipeline.data_list[i] # pipeline.cleaned_data[1]

-----------------------------------------------------------------------------
(* The jobs and their triggers                                             *)

\* the triggers the scheduler holds under the id of the job
TriggersOf(job_id) == {i \in 1..Len(triggers) : triggers[i].id = TriggerId(job_id)}

\* C18: whatever calls of create_job, schedule_active_jobs and
\* schedule_job_scraping have run or are running, two of them for the same
\* job at once included, the scheduler holds at most one trigger job_<id>.
C18_AtMostOneTrigger ==
    sched # <<>> => \A job_id \in 1..scraping_jobs.seq : Cardinality(TriggersOf(job_id)) <= 1

\* two calls for one job were at add_job together: the trigger of the first
\* is live and the second has left with ConflictingIdError
C18_Witness ==
    /\ sched # <<>>
    /\ \E w \in Workers :
          /\ sched.call[w].pc = "done" /\ sched.call[w].raised
          /\ sched.call[w].job # <<>>
          /\ ~TriggerFor(sched.call[w].job_id, sched.call[w].job[1].schedule_type,
                         sched.call[w].job[1].schedule_value).raised
          /\ Cardinality(TriggersOf(sched.call[w].job_id)) = 1

\* the call of schedule_job_scraping by w returns in this step, for a row
\* whose schedule is cleared
ReturnsCleared(w) ==
    /\ sched.call[w].op = "schedule_job_scraping"
    /\ sched.call[w].pc # "done" /\ sched'.call[w].pc = "done"
    /\ sched'.call[w].job # <<>>
    /\ sched'.call[w].job[1].schedule_type = NULL

\* C19: when schedule_job_scraping has run for a job whose schedule was
\* cleared, no trigger of that job is live at its return.
C19_ClearedScheduleCancelsTrigger ==
    [][\A w \in Workers :
          ReturnsCleared(w) => TriggersOf(sched.call[w].job_id)' = {}]_vars

\* thread w takes a step of toggle_job: the read that opens the call, or
\* the write
ToggleStep(w) ==
    \/ sched.call[w].pc = "update" /\ sched'.call[w].pc = "done"
    \/ started' = started + 1 /\ sched'.call[w] # sched.call[w]
       /\ sched'.call[w].op = "toggle_job"

\* the table after the write of a toggle_job call whose read found `job`
Toggled(jobs, job_id, job) ==
    IF job_id \notin DOMAIN jobs.rows THEN jobs
    ELSE [jobs EXCEPT !.rows[job_id].is_active = 1 - job.is_active,
                      !.rows[job_id].updated_at = @ + 1]

\* t and then u have toggled job_id, and nothing else has written the row
\* since t read it
ToggledTwice(t, u, job_id) ==
    /\ t # u
    /\ sched.call[t].op = "toggle_job" /\ sched.call[t].pc = "done"
    /\ sched.call[u].op = "toggle_job" /\ sched.call[u].pc = "done"
    /\ sched.call[t].job_id = job_id /\ sched.call[u].job_id = job_id
    /\ sched.call[t].job # <<>> /\ sched.call[u].job # <<>>
    /\ sched.call[u].job[1].updated_at = sched.call[t].job[1].updated_at + 1
    /\ job_id \in DOMAIN scraping_jobs.rows
    /\ scraping_jobs.rows[job_id].updated_at = sched.call[t].job[1].updated_at + 2

-----------------------------------------------------------------------------
(* The steps validate and clean_url                                        *)

\* the step the loop has just applied is validate
ValidateApplied ==
    /\ pipeline # <<>> /\ pipeline.applied >= 1
    /\ pipeline.steps[pipeline.applied].type = "validate"

\* the item is written scheme://authority...: a scheme that opens with a
\* letter, "://", and a character that opens an authority
HasSchemeAndAuthority(item) ==
    \E i \in 2..(Len(item) - 3) :
        /\ SubSeq(item, i, i + 2) = "://"
        /\ Ch(item, 1) \in Letters
        /\ \A k \in 1..(i - 1) : Ch(item, k) \in SchemeChars
        /\ Ch(item, i + 3) \notin {"/", "?", "#"}

\* C25: validate keeps an item of kind Links, Images or Videos exactly
\* when it begins with "/" or is written with a scheme and an authority,
\* for the three kinds alike.
C25_ValidateReferencesAlike ==
    (ValidateApplied /\ pipeline.data_type \in {"Links", "Images", "Videos"})
        => LET Keep(item) == StartsWith(item, "/") \/ HasSchemeAndAuthority(item)
           IN  pipeline.cleaned_data = SelectSeq(pipeline.before, Keep)

\* C25 as amended: validate keeps an Images or Videos item exactly when it
\* begins with "/" or is written with a scheme and an authority, and keeps
\* a Links item exactly when it is written with a scheme and an authority.
C25_ValidateReferences ==
    (ValidateApplied /\ pipeline.data_type \in {"Links", "Images", "Videos"})
        => LET Keep(item) == \/ pipeline.data_type # "Links" /\ StartsWith(item, "/")
                             \/ HasSchemeAndAuthority(item)
           IN  pipeline.cleaned_data = SelectSeq(pipeline.before, Keep)

\* validate has dropped a Links item that begins with "/" and has kept
\* another item
C25_Witness ==
    /\ ValidateApplied /\ pipeline.data_type = "Links"
    /\ \E i \in 1..Len(pipeline.before) :
          /\ StartsWith(pipeline.before[i], "/")
          /\ \A j \in 1..Len(pipeline.cleaned_data) :
                pipeline.cleaned_data[j] # pipeline.before[i]
    /\ pipeline.cleaned_data # <<>>

\* the characters of the item that are no whitespace
NonBlank(item) == {i \in 1..Len(item) : Ch(item, i) \notin Whitespace}

\* the length of the item from its first to its last non-blank character
TrimmedLen(item) ==
    IF NonBlank(item) = {} THEN 0
    ELSE 1 + (CHOOSE j \in NonBlank(item) : \A k \in NonBlank(item) : k <= j)
           - (CHOOSE i \in NonBlank(item) : \A k \in NonBlank(item) : i <= k)

\* clean has returned from the default Text pipeline
ReturnedDefaultText ==
    /\ pipeline # <<>> /\ pipeline.returned /\ pipeline.data_type = "Text"
    /\ pipeline.steps = create_default_pipeline("Text")

\* C26: validate keeps a Text item exactly when it has at least 3
\* non-whitespace characters, and no item with fewer than 3 of them is
\* in what the default Text pipeline returns.
C26_ValidateTextNonBlank ==
    /\ (ValidateApplied /\ pipeline.data_type = "Text")
          => LET Keep(item) == Cardinality(NonBlank(item)) >= 3
             IN  pipeline.cleaned_data = SelectSeq(pipeline.before, Keep)
    /\ ReturnedDefaultText
          => \A i \in 1..Len(pipeline.cleaned_data) :
                Cardinality(NonBlank(pipeline.cleaned_data[i])) >= 3

\* C26 as amended: validate keeps a Text item exactly when it is at least
\* 3 characters long once the whitespace at its ends is trimmed, the
\* whitespace inside it counted; no item shorter than that is in what the
\* default Text pipeline returns.
C26_ValidateTextTrimmed ==
    /\ (ValidateApplied /\ pipeline.data_type = "Text")
          => LET Keep(item) == TrimmedLen(item) >= 3
             IN  pipeline.cleaned_data = SelectSeq(pipeline.before, Keep)
    /\ ReturnedDefaultText
          => \A i \in 1..Len(pipeline.cleaned_data) :
                TrimmedLen(pipeline.cleaned_data[i]) >= 3

\* validate has kept a text of two letters around a blank and has dropped
\* a text of three characters with one letter
C26_Witness ==
    /\ ValidateApplied /\ pipeline.data_type = "Text"
    /\ \E i \in 1..Len(pipeline.cleaned_data) :
          /\ Len(pipeline.cleaned_data[i]) = 3
          /\ Cardinality(NonBlank(pipeline.cleaned_data[i])) = 2
    /\ \E i \in 1..Len(pipeline.before) :
          /\ Len(pipeline.before[i]) = 3
          /\ Cardinality(NonBlank(pipeline.before[i])) = 1
          /\ \A j \in 1..Len(pipeline.cleaned_data) :
                pipeline.cleaned_data[j] # pipeline.before[i]

\* the path with one trailing slash taken off, the root path kept
OneSlashLess(path) ==
    IF path # "/" /\ EndsWith(path, "/") THEN SubSeq(path, 1, Len(path) - 1) ELSE path

\* the URL the claim describes: fragment off, authority in lower case, one
\* trailing slash off the path, scheme and query as written
DefaultCleaned(url) ==
    Before(url, ":") \o "://" \o Lower(urlparse(url).netloc)
    \o OneSlashLess(urlparse(url).path)
    \o (IF urlparse(url).query # "" THEN "?" \o urlparse(url).query ELSE "")

\* C27: clean_url under its default options turns a URL written with
\* scheme and authority into the same URL without its fragment, with the
\* authority in lower case and with exactly one trailing slash taken off
\* a path other than "/".
C27_CleanUrlDefault ==
    (/\ pipeline # <<>> /\ pipeline.applied = 1
     /\ pipeline.data_type \in {"Links", "Images", "Videos"}
     /\ pipeline.steps = create_default_pipeline(pipeline.data_type))
        => \A i \in 1..Len(pipeline.before) :
              HasSchemeAndAuthority(pipeline.before[i])
                  => pipeline.cleaned_data[i] = DefaultCleaned(pipeline.before[i])

-----------------------------------------------------------------------------
(* The writes at the end of a run                                          *)

\* the items scrape_website returns at line 404
ReturnedItems ==
    [i \in 1..Len(locals.cleaned_data) |->
        [type |-> request.data_type, content |-> locals.cleaned_data[i]]]

\* the call is past line 402 and the Result write has failed: the run
\* extracted items and table results holds no row
ResultWriteFailed ==
    /\ pc \in {"finally", "done"}
    /\ "cleaned_data" \in DOMAIN locals /\ locals.extracted_data # <<>>
    /\ results = <<>>

\* C22: a run whose Result write failed still appends its RunStats row and
\* returns its items.
C22_StatsRowAfterResultFailure ==
    ResultWriteFailed =>
        /\ exit = Returns(ReturnedItems)
        /\ pc = "done" => stats_appended = 1

\* C22 as amended: a run whose Result write failed still returns its
\* items and still runs the RunStats insert, once: its row, with the
\* counts of the run, is appended unless that insert fails itself.
C22_StatsInsertAfterResultFailure ==
    ResultWriteFailed =>
        /\ exit = Returns(ReturnedItems)
        /\ pc = "done" =>
              /\ stats_saved # "unset"
              /\ stats_appended = (IF stats_saved = "True" THEN 1 ELSE 0)
              /\ stats_saved = "True" =>
                    /\ scraping_stats # <<>>
                    /\ scraping_stats[Len(scraping_stats)] = StatsRow

\* the Result write of a run with items has failed, and the run has
\* appended its RunStats row and holds items to return
C22_Witness ==
    /\ ResultWriteFailed /\ pc = "done"
    /\ stats_saved = "True" /\ stats_appended = 1
    /\ exit.kind = "return" /\ exit.value # <<>>

\* C29: when a run is over, whichever way it ended, the CSV artifact holds
\* the cleaned items of that run, none for a run that cleaned nothing.
C29_CsvHoldsLastRun ==
    pc = "done" =>
        /\ csv.exists
        /\ csv.rows = (IF "cleaned_data" \in DOMAIN locals THEN locals.cleaned_data ELSE <<>>)

\* C30: in a run with downloading on, every local reference (beginning
\* with "/") that an acquisition returned is among the cleaned items and
\* among the items the run returns.
C30_LocalReferenceKept ==
    (/\ request.download_images \/ request.download_videos
     /\ "cleaned_data" \in DOMAIN locals
     /\ pc \in {"finally", "done"})
        => \A i \in 1..Len(locals.extracted_data) :
              StartsWith(locals.extracted_data[i], "/")
                  => /\ \E j \in 1..Len(locals.cleaned_data) :
                           locals.cleaned_data[j] = locals.extracted_data[i]
                     /\ exit.kind = "return"
                     /\ \E j \in 1..Len(exit.value) :
                           exit.value[j].content = locals.extracted_data[i]

-----------------------------------------------------------------------------
(* Claims about created, fired and deleted jobs                            *)

\* thread w opens a call of create_job for a manual job in this step
CreatesManual(w) ==
    /\ started' = started + 1 /\ sched'.call[w] # sched.call[w]
    /\ sched'.call[w].op = "create_job" /\ sched'.call[w].pc = "done"

\* the call of create_job by w returns in this step, for a row read with
\* one of the three recurring schedule types
ReturnsScheduled(w) ==
    /\ sched.call[w].op = "create_job"
    /\ sched.call[w].pc # "done" /\ sched'.call[w].pc = "done"
    /\ sched'.call[w].job # <<>>
    /\ sched'.call[w].job[1].schedule_type \in {"hourly", "daily", "weekly"}

\* C24: a job created with schedule_type hourly, daily or weekly is left
\* active and bound to exactly one live trigger; a job created as manual
\* is left active with no trigger.
C24_CreateLeavesOneTrigger ==
    [][\A w \in Workers :
          /\ CreatesManual(w) =>
                /\ scraping_jobs'.rows[sched'.call[w].job_id].is_active = 1
                /\ \A i \in 1..Len(triggers') :
                      triggers'[i].id # TriggerId(sched'.call[w].job_id)
          /\ ReturnsScheduled(w) =>
                /\ sched'.call[w].job[1].is_active = 1
                /\ Cardinality(TriggersOf(sched.call[w].job_id)') = 1]_vars

\* thread w opens a call of run_scheduled_job in this step
Fires(w) ==
    /\ started' = started + 1 /\ sched'.call[w] # sched.call[w]
    /\ sched'.call[w].op = "run_scheduled_job"

\* what a firing does at its first step: with no job or an inactive one it
\* returns and no table changes, otherwise the pipeline runs for the job
FiredOrSkipped(w) ==
    Fires(w) =>
        LET job == get_scraping_job(scraping_jobs, sched'.call[w].job_id)
        IN  /\ UNCHANGED <<scraping_jobs, scraping_stats, results>>
            /\ IF job = <<>> THEN sched'.call[w].pc = "done"
               ELSE IF job[1].is_active = 0 THEN sched'.call[w].pc = "done"
               ELSE sched'.call[w].pc = "scrape" /\ sched'.call[w].job = job

\* thread w, at `at` in run_scheduled_job, takes its step
FiringStep(w, at) ==
    /\ sched.call[w].op = "run_scheduled_job" /\ sched.call[w].pc = at
    /\ sched'.call[w] # sched.call[w]

\* the rows a run of the pipeline appends carry the job_id of the firing
RunsForJob(w) ==
    FiringStep(w, "scrape") =>
        /\ \A i \in Len(scraping_stats) + 1..Len(scraping_stats') :
              scraping_stats'[i].job_id = sched.call[w].job_id
        /\ \A i \in Len(results) + 1..Len(results') :
              results'[i].job_id = sched.call[w].job_id

\* last_run of the job of w is later after this step than the firing read it
LastRunAdvances(w) ==
    sched.call[w].job_id \in DOMAIN scraping_jobs'.rows =>
        scraping_jobs'.rows[sched.call[w].job_id].last_run > sched.call[w].job[1].last_run

RowsOfOthers(table, job_id) ==
    LET keep == {i \in 1..Len(table) : table[i].job_id # job_id}
        Nth(n) == CHOOSE i \in keep : Cardinality({j \in keep : j < i}) = n - 1
    IN  [n \in 1..Cardinality(keep) |-> table[Nth(n)]]

\* C23: after a successful delete_scraping_job(id) the job row and every
\* Result and RunStats row with that job_id are gone, and the rows of other
\* jobs and the rows with a null job_id are as they were; a delete that
\* fails, like any other step, removes no row.
C23_DeleteCascades ==
    [][/\ \A job_id \in DOMAIN scraping_jobs.rows :
             job_id \notin DOMAIN scraping_jobs'.rows =>
                /\ results' = RowsOfOthers(results, job_id)
                /\ scraping_stats' = RowsOfOthers(scraping_stats, job_id)
                /\ \A other \in DOMAIN scraping_jobs.rows \ {job_id} :
                      /\ other \in DOMAIN scraping_jobs'.rows
                      /\ scraping_jobs'.rows[other] = scraping_jobs.rows[other]
       /\ DOMAIN scraping_jobs.rows \subseteq DOMAIN scraping_jobs'.rows =>
             /\ Len(results') >= Len(results)
             /\ SubSeq(results', 1, Len(results)) = results
             /\ Len(scraping_stats') >= Len(scraping_stats)
             /\ SubSeq(scraping_stats', 1, Len(scraping_stats)) = scraping_stats]_vars

\* job 1, which had rows in both tables, is deleted: its rows are gone and
\* the rows of job 2 and of the runs without a job are there
C23_Witness ==
    /\ sched # <<>>
    /\ 1 \notin DOMAIN scraping_jobs.rows /\ 2 \in DOMAIN scraping_jobs.rows
    /\ results = <<StoredResults[2], StoredResults[3]>>
    /\ scraping_stats = <<StoredStats[2], StoredStats[3]>>

-----------------------------------------------------------------------------
(* Claims about the dashboard                                              *)

\* the rows of the table that are among its RecentRuns last
RecentRows(table) ==
    {i \in 1..Len(table) : i > Len(table) - RecentRuns}

\* C28: the success rate the dashboard shows is computed over the most
\* recent 100 RunStats rows only: 100 * (successful rows among them) /
\* (number of them), and 0 when there are no rows; older rows do not count.
C28_RateOfRecentRuns ==
    [][dashboard' # dashboard =>
          LET rate == dashboard'[1].success_rate
              recent == RecentRows(scraping_stats)
              successful == {i \in recent : scraping_stats[i].success}
          IN  IF recent = {} THEN rate.num = 0
              ELSE rate.num * Cardinality(recent) =
                       100 * Cardinality(successful) * rate.den]_vars

-----------------------------------------------------------------------------
(* Claims about the Result rows                                            *)

\* what the default pipeline makes of one raw value on its own: the cleaned
\* form in a list, or the empty list when the value is dropped
CleanedAlone(raw, data_type) ==
    PipelineClean(create_default_pipeline(data_type), <<raw>>, data_type)

\* C31: a run appends one Result row per extracted item, and a row whose
\* cleaned_data is not null holds the cleaned form of its own
\* extracted_data, also when items earlier in the list were dropped.
C31_RowPairsRawWithItsCleaned ==
    [][results' # results =>
          /\ Len(results') = Len(results) + Len(locals.extracted_data)
          /\ \A i \in 1..Len(locals.extracted_data) :
                LET row == results'[Len(results) + i]
                IN  /\ row.extracted_data = locals.extracted_data[i]
                    /\ row.cleaned_data # NULL =>
                          CleanedAlone(row.extracted_data, row.data_type) = <<row.cleaned_data>>]_vars

-----------------------------------------------------------------------------
(* Claims about the references and the files of the media cache            *)

\* worker w is about to return a local reference from an acquisition
ReturnsReference(w) ==
    wpc[w] = "ret" /\ wcall[w].op = "download" /\ wcall[w].ret # NULL

\* C32: when an acquisition returns a local reference, after a download or
\* on a cache hit, the file it names is in the media directory, also when
\* the eviction pass after the write ran with a file larger than the
\* capacity.
C32_ReturnedFileExists ==
    \A w \in Workers :
        ReturnsReference(w) => Exists(media[wcall[w].kind], wcall[w].name)

\* C33: an acquisition that returns null leaves the media directory as it
\* was, and the file behind a reference that an acquisition returns is
\* written whole.
C33_FailedDownloadLeavesNoFile ==
    [][started' # started =>
          LET kind == acquisition'.kind
              name == Filename(kind, acquisition'.url)
          IN  /\ acquisition'.ret = NULL => media' = media
              /\ (acquisition'.ret = RefOf(kind, name) /\ Exists(media'[kind], name)) =>
                    media'[kind].size[name] = ContentSize(acquisition'.url)]_vars

-----------------------------------------------------------------------------
(* Claims about the eviction loop                                          *)

\* worker w takes the step of clean_storage it is at
PassStep(w, at) ==
    /\ wpc[w] = at
    /\ wpc'[w] # wpc[w] \/ wcall'[w].kind # wcall[w].kind

\* the step of w leaves clean_storage(folder) for the folder it was run on
PassEnded(w) ==
    /\ \E at \in {"size", "list", "remove"} : PassStep(w, at)
    /\ wpc'[w] = "ret" \/ wcall'[w].kind # wcall[w].kind

\* no other thread writes to or deletes from the media directories
Alone(w) == \A v \in Workers \ {w} : wcall[v].op = "none"

\* one turn of the loop: the size test leaves the loop at or below the
\* capacity, the listing leaves it when there is no file, and the deletion
\* takes one file out of the directory or fails and leaves the loop
LoopTurn(w) ==
    /\ PassStep(w, "size") =>
          (PassEnded(w) <=> get_folder_size(media[wcall[w].kind]) <= MAX_STORAGE_SIZE)
    /\ PassStep(w, "list") =>
          (PassEnded(w) <=> DOMAIN media[wcall[w].kind].size = {})
    /\ PassStep(w, "remove") =>
          IF PassEnded(w) THEN media' = media
          ELSE \E f \in DOMAIN media[wcall[w].kind].size :
                  media' = [media EXCEPT ![wcall[w].kind] = Remove(@, f)]

\* C36: every turn of the loop of clean_storage deletes one file or leaves
\* the loop, and a pass run with no other thread at work ends with the
\* directory at or below the capacity, or empty.
C36_PassEndsUnderCapacity ==
    [][\A w \in Workers :
          /\ LoopTurn(w)
          /\ (PassEnded(w) /\ Alone(w)) =>
                \/ get_folder_size(media'[wcall[w].kind]) <= MAX_STORAGE_SIZE
                \/ DOMAIN media'[wcall[w].kind].size = {}]_vars

\* C36, amended: every pass ends; every turn of the loop deletes one file
\* or leaves the loop; and a pass run with no other thread at work ends with
\* the directory at or below the capacity, or empty, or after a deletion
\* that failed.
C36_PassEnds ==
    /\ \A w \in Workers : InPass(w) ~> ~InPass(w)
    /\ [][\A w \in Workers :
             /\ LoopTurn(w)
             /\ (PassEnded(w) /\ Alone(w)) =>
                   \/ get_folder_size(media'[wcall[w].kind]) <= MAX_STORAGE_SIZE
                   \/ DOMAIN media'[wcall[w].kind].size = {}
                   \/ wpc[w] = "remove"]_vars

\* a pass deleted the file of an earlier download and ended with the file
\* just written in the directory, at or below the capacity
C36_Witness ==
    \E w \in Workers :
        /\ ReturnsReference(w) /\ wcall[w].fetched
        /\ wcall[w].oldest \notin {"", wcall[w].name}
        /\ ~Exists(media[wcall[w].kind], wcall[w].oldest)
        /\ Exists(media[wcall[w].kind], wcall[w].name)
        /\ get_folder_size(media[wcall[w].kind]) <= MAX_STORAGE_SIZE

-----------------------------------------------------------------------------
(* Claims about the jobs after the start and under deletion                *)

\* C34: once schedule_active_jobs has run, and whatever toggles follow,
\* every job that is active and has schedule_type hourly, daily or weekly
\* has a live trigger; so has a job that was inactive at the start and was
\* toggled active.
C34_ActiveScheduledHasTrigger ==
    (sched # <<>> /\ sched.first_request) =>
        \A job_id \in DOMAIN scraping_jobs.rows :
            (/\ scraping_jobs.rows[job_id].is_active = 1
             /\ scraping_jobs.rows[job_id].schedule_type \in {"hourly", "daily", "weekly"})
                => TriggersOf(job_id) # {}

\* the ids of the jobs that were deleted: ids are given once
Deleted == (1..scraping_jobs.seq) \ DOMAIN scraping_jobs.rows

\* C35: however the runs and delete_scraping_job interleave, no row of
\* results or scraping_stats carries the id of a deleted job: a run of the
\* job that was in flight at the delete appends no row with that id.
C35_NoRowOfDeletedJob ==
    sched # <<>> =>
        /\ \A i \in 1..Len(results) : results[i].job_id \notin Deleted
        /\ \A i \in 1..Len(scraping_stats) : scraping_stats[i].job_id \notin Deleted

====
